---------------------------- MODULE Spec2Model ----------------------------
(***************************************************************************)
(* A model of the coolprop-rs binding layer: the AbstractState wrapper     *)
(* around a native handle (src/src/abstract_state.rs), the free functions  *)
(* over the native library's global state (src/src/lib.rs, props.rs,       *)
(* ha_props.rs) and the once-per-process index tables (src/src/indices.rs).*)
(* The native library is an opaque collaborator: whatever it may answer is *)
(* a nondeterministic choice of the action that calls it.                  *)
(***************************************************************************)
EXTENDS Integers, Sequences, FiniteSets, TLC

\* ------------------------------------------------------------------ bounds
\* Threads of the calling program.
NumThreads == 2
\* Handles the native factory can issue in one run (it issues 1, 2, ... in order).
MaxHandles == 3
\* Length of the message buffer call_with_error hands to the native call in the
\* model (the code's ERR_BUF_LEN is 1024 bytes; the model keeps the buffer short).
ErrBufLen == 3
\* Longest run of failing answers the native library gives to one string query.
MaxFails == 14
\* Largest buffer capacity up to which a growable-buffer loop is followed.
MaxCapacity == 1048576
\* Longest input slice of a batched update.
MaxBatch == 2
\* Native calls followed on one handle before its free.
MaxCalls == 4
\* Largest of the consecutive phase codes the native library is taken to return.
MaxCode == 10
\* Largest sizes a phase envelope is taken to report within its buffers, and
\* the largest buffer size up to which the loop of phase_envelope is followed.
MaxPoints == 3
MaxComponents == 2
MaxGuess == 512

Threads == 1..NumThreads
Handles == 1..MaxHandles
\* One wrapper object per slot; a slot is never reused.
ObjIds == 1..(MaxHandles + 1)

VARIABLES
    \* ---- AbstractState objects and the native handle table (Spec)
    obj,          \* obj[i]: the AbstractState in slot i: [made, alive, handle, owner, moved]
    nextObj,      \* the next free slot
    issued,       \* handles returned by a successful AbstractState_factory call
    freeCount,    \* freeCount[h]: AbstractState_free calls made with handle h
    inCall,       \* inCall[t]: the handle thread t is passing to a native call, or 0
    rawHandles,   \* values the caller got from handle() and still holds
    staleUse,     \* history: the wrapper passed a handle to a native call after its free
    overlap,      \* history: two threads were inside the native library with one handle
    failedNew,    \* history: an AbstractState::new has returned Err
    \* ---- call_with_error (SpecErr)
    cweIn,        \* what the native call left: [called, status, buf, ret]
    cweOut,       \* what call_with_error returned
    \* ---- PropsSI, Props1SI, HAPropsSI and the global error string (SpecGlobal)
    errString,    \* the native library's global error string
    gpc,          \* gpc[t]: where thread t is inside props_si / props1_si / ha_props_si
    done,         \* the call that returned last, with what it returned
    \* ---- global_param_string, get_config_string, phase_si (SpecQuery)
    qres,         \* the string query that returned last, with what it returned
    \* ---- growable-buffer queries of an AbstractState (SpecGrow)
    grow,         \* the query in progress: its buffer capacity, calls made, result
    \* ---- the process-wide index table (SpecIdx)
    ipc,          \* thread -> where it is in AbstractState::new / global_indices
    computed,     \* thread -> the table its own Indices::load built
    ref,          \* thread -> the &'static Indices global_indices returned to it
    published,    \* content of the INDICES cell
    loads,        \* number of Indices::load runs started
    everPublished,\* every table the INDICES cell has held
    stateTables,  \* the table each AbstractState created so far refers to
    \* ---- the native configuration and config_call (SpecConfig)
    store,        \* key -> the value the native configuration holds
    cpc,          \* the set_config_* call in progress: its step inside config_call
    cres,         \* the configuration call that returned last, with what it returned
    assured,      \* the key and value of the last set_config_* call, if it returned Ok
    \* ---- operations taking string arguments (SpecStr)
    sres,         \* the string-taking call that returned last, with what it returned
    lastEntry,    \* the native entry point invoked last
    \* ---- batched updates (SpecBatch)
    bres,         \* the batched update that returned last, with what it returned
    point,        \* the point the native state was updated to last
    \* ---- the native calls made on one handle (SpecSeq)
    sobj,         \* state -> [phase, updated, calls, early, afterFree]
    \* ---- try_clone and the composition it copies (SpecClone)
    origComp,     \* the composition the original native state holds
    cl,           \* the try_clone that returned last, with the state it made
    \* ---- phase codes and saturation phases (SpecPhase)
    pres,         \* the phase-related call that returned last, with what it returned
    lastToken,    \* the saturation token sent to the native library last
    \* ---- the vectors of phase_envelope (SpecEnvelope)
    env,          \* one phase_envelope call: its place, its buffers, what it returned
    \* ---- set_reference_state (SpecRef)
    refstate,     \* the set_reference_state call that returned last
    \* ---- imposed phases (SpecImpose)
    imposed,      \* the phase imposed on the native state, "NotImposed" when none
    determined,   \* the phase the native state found in its last update
    specified,    \* the argument of the last specify_phase that returned Ok
    spres,        \* the call that returned last, with what it returned
    \* ---- the handle field across failures (SpecHandle)
    hobj,         \* hobj[i]: AbstractState i with its handle field and its failures
    hfree,        \* hfree[h]: AbstractState_free calls made with handle h
    hissued,      \* handles the factory has returned
    \* ---- the vectors of mole_fractions and its siblings (SpecFractions)
    fr,           \* one fractions query: its place, its capacities, what it returned
    \* ---- the free function fluid_param_string (SpecFluidParam)
    fps,          \* the fluid_param_string call that returned last
    \* ---- the data of spinodal_data and critical_points (SpecCurves)
    cv,           \* one query: its place, its capacity, its buffers, what it returned
    \* ---- the contents of the index tables (SpecTable)
    tbl           \* the tables as far as loaded, and the last lookup

lifeVars == <<obj, nextObj, issued, freeCount, inCall, rawHandles, staleUse, overlap, failedNew>>
errVars == <<cweIn, cweOut>>
globVars == <<errString, gpc, done>>
queryVars == <<qres>>
growVars == <<grow>>
idxVars == <<ipc, computed, ref, published, loads, everPublished, stateTables>>
cfgVars == <<store, cpc, cres, assured>>
strVars == <<sres, lastEntry>>
batchVars == <<bres, point>>
seqVars == <<sobj>>
cloneVars == <<origComp, cl>>
phaseVars == <<pres, lastToken>>
envVars == <<env>>
refVars == <<refstate>>
imposeVars == <<imposed, determined, specified, spres>>
handleVars == <<hobj, hfree, hissued>>
fracVars == <<fr>>
fpsVars == <<fps>>
curveVars == <<cv>>
tableVars == <<tbl>>
vars == <<lifeVars, errVars, globVars, queryVars, growVars, idxVars, cfgVars, strVars, batchVars, seqVars, cloneVars, phaseVars, envVars, refVars, imposeVars, handleVars, fracVars, fpsVars, curveVars, tableVars>>

\* ----------------------------------------------- AbstractState: ownership
NoObj == [made |-> FALSE, alive |-> FALSE, handle |-> 0, owner |-> 0, moved |-> FALSE]

\* struct AbstractState { indices, handle, _not_sync }: a value with one owner.
MakeState(h, t) == [made |-> TRUE, alive |-> TRUE, handle |-> h, owner |-> t, moved |-> FALSE]

\* A value after its drop: only the handle it held is remembered.
Dropped(o) == [made |-> TRUE, alive |-> FALSE, handle |-> o.handle, owner |-> 0, moved |-> FALSE]

Live == {i \in ObjIds : obj[i].alive}

\* The handle the native library has not yet been asked to free.
NativeLive(h) == h \in issued /\ freeCount[h] = 0

\* The next handle AbstractState_factory returns (the native library hands out
\* handles it has not handed out before).
FreshHandle == Cardinality(issued) + 1

\* A method takes &self or &mut self: only the thread that owns the value can call
\* it, and `_not_sync: PhantomData<Cell<()>>` keeps a reference from reaching another
\* thread.
CanCallShared(t, i) == obj[i].alive
CanCall(t, i) == obj[i].alive /\ obj[i].owner = t

\* What one native call with handle h by thread t adds to the two histories.
StaleAfter(h) == staleUse \/ ~NativeLive(h)
OverlapAfter(t, h) == overlap \/ (\E u \in Threads \ {t} : inCall[u] = h)

\* The handle a try_clone result stores: the one its own AbstractState::new got.
CloneHandleShared(selfHandle, fresh) == selfHandle
CloneHandle(selfHandle, fresh) == fresh

\* impl Drop: exactly one AbstractState_free(self.handle), its error ignored.
FreeOnDropForgotten(h) == freeCount
FreeOnDrop(h) == [freeCount EXCEPT ![h] = @ + 1]

\* What the AbstractState operations leave alone.
LifeFrame == UNCHANGED <<errVars, globVars, queryVars, growVars, idxVars, cfgVars, strVars, batchVars, seqVars, cloneVars, phaseVars, envVars, refVars, imposeVars, handleVars, fracVars, fpsVars, curveVars, tableVars>>

LifeInit ==
    /\ obj = [i \in ObjIds |-> NoObj]
    /\ nextObj = 1
    /\ issued = {}
    /\ freeCount = [h \in Handles |-> 0]
    /\ inCall = [t \in Threads |-> 0]
    /\ rawHandles = {}
    /\ staleUse = FALSE
    /\ overlap = FALSE
    /\ failedNew = FALSE

\* AbstractState::new fails: an embedded NUL in backend or fluid (no native call),
\* or AbstractState_factory leaves a non-zero status.  No value is built.
NewFails(t) ==
    /\ LifeFrame
    /\ inCall[t] = 0
    /\ failedNew' = TRUE
    /\ UNCHANGED <<obj, nextObj, issued, freeCount, inCall, rawHandles, staleUse, overlap>>

\* AbstractState::new succeeds: the factory's handle goes into a new value owned
\* by the calling thread.
NewOk(t) ==
    /\ LifeFrame
    /\ inCall[t] = 0
    /\ FreshHandle \in Handles
    /\ nextObj \in ObjIds
    /\ obj' = [obj EXCEPT ![nextObj] = MakeState(FreshHandle, t)]
    /\ nextObj' = nextObj + 1
    /\ issued' = issued \cup {FreshHandle}
    /\ UNCHANGED <<freeCount, inCall, rawHandles, staleUse, overlap, failedNew>>

\* try_clone(&self): backend_name and fluid_names on self.handle; then new, and a
\* second new with ',' replaced by '&' when the first fails and the text changes;
\* then mole_fractions on self.handle and set_fractions on the clone's handle.
\* made = TRUE: one of the two constructions succeeded.
TryClone(t, i, made) ==
    /\ LifeFrame
    /\ inCall[t] = 0
    /\ CanCall(t, i)
    /\ staleUse' = StaleAfter(obj[i].handle)
    /\ overlap' = OverlapAfter(t, obj[i].handle)
    /\ IF made
         THEN /\ FreshHandle \in Handles
              /\ nextObj \in ObjIds
              /\ obj' = [obj EXCEPT ![nextObj] =
                            MakeState(CloneHandle(obj[i].handle, FreshHandle), t)]
              /\ nextObj' = nextObj + 1
              /\ issued' = issued \cup {FreshHandle}
         ELSE UNCHANGED <<obj, nextObj, issued>>
    /\ UNCHANGED <<freeCount, inCall, rawHandles, failedNew>>

\* handle(&self) -> c_long: the caller gets a copy of the integer.
GetHandle(t, i) ==
    /\ LifeFrame
    /\ inCall[t] = 0
    /\ CanCall(t, i)
    /\ rawHandles' = rawHandles \cup {obj[i].handle}
    /\ UNCHANGED <<obj, nextObj, issued, freeCount, inCall, staleUse, overlap, failedNew>>

\* update, get, phase, ...: call_with_error runs one native call with self.handle.
BeginCall(t, i) ==
    /\ LifeFrame
    /\ inCall[t] = 0
    /\ CanCall(t, i)
    /\ inCall' = [inCall EXCEPT ![t] = obj[i].handle]
    /\ staleUse' = StaleAfter(obj[i].handle)
    /\ overlap' = OverlapAfter(t, obj[i].handle)
    /\ UNCHANGED <<obj, nextObj, issued, freeCount, rawHandles, failedNew>>

\* The native call returns (Ok or Err): the value and its handle are as before.
EndCall(t) ==
    /\ LifeFrame
    /\ inCall[t] # 0
    /\ inCall' = [inCall EXCEPT ![t] = 0]
    /\ UNCHANGED <<obj, nextObj, issued, freeCount, rawHandles, staleUse, overlap, failedNew>>

\* AbstractState: Send.  The owning thread hands the value to another thread.
MoveTo(t, i, u) ==
    /\ LifeFrame
    /\ inCall[t] = 0
    /\ obj[i].alive /\ obj[i].owner = t
    /\ u # t
    /\ obj' = [obj EXCEPT ![i].owner = u, ![i].moved = TRUE]
    /\ UNCHANGED <<nextObj, issued, freeCount, inCall, rawHandles, staleUse, overlap, failedNew>>

\* The owner drops the value: Drop::drop runs once and the value is gone.
DropState(t, i) ==
    /\ LifeFrame
    /\ inCall[t] = 0
    /\ obj[i].alive /\ obj[i].owner = t
    /\ staleUse' = StaleAfter(obj[i].handle)
    /\ overlap' = OverlapAfter(t, obj[i].handle)
    /\ freeCount' = FreeOnDrop(obj[i].handle)
    /\ obj' = [obj EXCEPT ![i] = Dropped(obj[i])]
    /\ UNCHANGED <<nextObj, issued, inCall, rawHandles, failedNew>>

LifeNext ==
    \E t \in Threads :
        \/ NewFails(t)
        \/ NewOk(t)
        \/ \E i \in ObjIds : \E made \in BOOLEAN : TryClone(t, i, made)
        \/ \E i \in ObjIds : GetHandle(t, i)
        \/ \E i \in ObjIds : BeginCall(t, i)
        \/ EndCall(t)
        \/ \E i \in ObjIds : \E u \in Threads : MoveTo(t, i, u)
        \/ \E i \in ObjIds : DropState(t, i)

\* ------------------------------- lib.rs: status-returning string queries
\* The native answers to the attempts of one query: status # 1 for the first
\* `fails` attempts and status 1 from then on (a loop that returns at the first
\* status 1 sees nothing else of the native behaviour).
NativeStatus(fails, attempt) == IF attempt <= fails THEN 0 ELSE 1

\* if capacity >= ceiling { return Err(..) }
AtCeilingStrict(capacity, ceiling) == capacity > ceiling
AtCeiling(capacity, ceiling) == capacity >= ceiling

\* loop { status = native(.., capacity); if status == 1 { return Ok }
\*        if capacity >= ceiling { return Err }  capacity *= 2 }
\* caps: the capacities of the attempts made so far, this one included.
RECURSIVE RetryLoop(_, _, _)
RetryLoop(caps, ceiling, fails) ==
    LET capacity == caps[Len(caps)] IN
    IF NativeStatus(fails, Len(caps)) = 1
        THEN [ok |-> TRUE, caps |-> caps]
    ELSE IF AtCeiling(capacity, ceiling)
        THEN [ok |-> FALSE, caps |-> caps]
    ELSE RetryLoop(Append(caps, capacity * 2), ceiling, fails)

\* global_param_string: let mut capacity: usize = 256; ... capacity >= (1 << 20)
GlobalStart == 256
GlobalCeiling == 1048576
\* phase_si: let mut capacity = 64usize; ... capacity >= 4096
PhaseStart == 64
PhaseCeiling == 4096

\* The loops of global_param_string / get_config_string and of phase_si, for
\* each native behaviour.
GlobalLoop[f \in 0..MaxFails] == RetryLoop(<<GlobalStart>>, GlobalCeiling, f)
PhaseLoop[f \in 0..MaxFails] == RetryLoop(<<PhaseStart>>, PhaseCeiling, f)

\* ------------------------------------ props.rs, ha_props.rs and errstring
\* An f64 as far as is_finite tells: a finite value, NaN or an infinity.
Finite(v) == [class |-> "finite", v |-> v]
NaN == [class |-> "nan", v |-> 0]
PosInf == [class |-> "inf", v |-> 1]
NegInf == [class |-> "inf", v |-> -1]
is_finite(x) == x.class = "finite"
\* What the native call of thread t may return: a value computed for its own
\* arguments, or a non-finite value.
NativeValues(t) == {Finite(t), NaN, PosInf, NegInf}

\* Strings of this part: the empty string, the message the native library wrote
\* for the failing call of thread `by`, and the wrapper's own "unknown error".
EmptyStr == [text |-> "", by |-> 0]
NativeError(t) == [text |-> "native", by |-> t]
UnknownError == [text |-> "unknown error", by |-> 0]

\* format!("PropsSI(..")  /  format!("Props1SI(..")  /  format!("HAPropsSI(..")
PropsOps == {"props_si", "props1_si", "ha_props_si"}
Context(op) ==
    CASE op = "props_si" -> "PropsSI("
      [] op = "props1_si" -> "Props1SI("
      [] op = "ha_props_si" -> "HAPropsSI("

Idle == [at |-> "idle", op |-> "", out |-> Finite(0)]
NoCall == [t |-> 0, op |-> "", out |-> Finite(0), ok |-> TRUE, value |-> Finite(0),
           kind |-> "", context |-> "", message |-> EmptyStr, calls |-> 0,
           fetched |-> FALSE, retrieved |-> EmptyStr]

GlobFrame == UNCHANGED <<lifeVars, errVars, queryVars, growVars, idxVars, cfgVars, strVars, batchVars, seqVars, cloneVars, phaseVars, envVars, refVars, imposeVars, handleVars, fracVars, fpsVars, curveVars, tableVars>>

GlobInit ==
    /\ errString = EmptyStr
    /\ gpc = [t \in Threads |-> Idle]
    /\ done = NoCall

\* Ok(value): check_finite_and_report_error with a finite value.
PropsOk(t, op, out) ==
    [t |-> t, op |-> op, out |-> out, ok |-> TRUE, value |-> out, kind |-> "Ok",
     context |-> "", message |-> EmptyStr, calls |-> 1, fetched |-> FALSE,
     retrieved |-> EmptyStr]

\* let message = global_param_string("errstring")
\*                   .unwrap_or_else(|_| "unknown error".into());
MessageAlwaysUnknown(fetched, text) == UnknownError
MessageOr(fetched, text) == IF fetched THEN text ELSE UnknownError

\* Err(Error::Computation { context, message })
PropsErr(t, op, out, fetched, text, calls) ==
    [t |-> t, op |-> op, out |-> out, ok |-> FALSE, value |-> Finite(0),
     kind |-> "Computation", context |-> Context(op),
     message |-> MessageOr(fetched, text), calls |-> calls, fetched |-> fetched,
     retrieved |-> IF fetched THEN text ELSE EmptyStr]

\* props_si / props1_si / ha_props_si up to the return of the native call
\* (PropsSI, Props1SI, HAPropsSI), the arguments holding no NUL: a finite value
\* is returned at once; a non-finite one, for which the native library has
\* written its error string, leaves the thread before the errstring query.
PropsCall(t, op, out) ==
    /\ GlobFrame
    /\ gpc[t].at = "idle"
    /\ IF is_finite(out)
         THEN /\ done' = PropsOk(t, op, out)
              /\ UNCHANGED <<gpc, errString>>
         ELSE /\ gpc' = [gpc EXCEPT ![t] = [at |-> "report", op |-> op, out |-> out]]
              /\ errString' = NativeError(t)
              /\ UNCHANGED done

\* check_finite_and_report_error, the non-finite branch: global_param_string(
\* "errstring") runs its loop for `fails` failing answers; an attempt with status 1
\* hands over the error string, which the native library then clears; after the
\* failing attempt at the ceiling the loop queries errstring once more for its own
\* error (`last`: that query took the string), and the message is "unknown error".
PropsReport(t, fails, last) ==
    /\ GlobFrame
    /\ gpc[t].at = "report"
    /\ LET r == GlobalLoop[fails]
           calls == 1 + Len(r.caps) + (IF r.ok THEN 0 ELSE 1)
       IN  /\ done' = PropsErr(t, gpc[t].op, gpc[t].out, r.ok, errString, calls)
           /\ errString' = IF r.ok \/ last THEN EmptyStr ELSE errString
    /\ gpc' = [gpc EXCEPT ![t] = Idle]

\* Threads calling side by side, the library being initialised (a first call has
\* completed); the errstring query succeeds at once or never.
GlobNext ==
    \E t \in Threads :
        \/ \E op \in PropsOps : \E out \in NativeValues(t) : PropsCall(t, op, out)
        \/ \E fails \in {0, MaxFails} : \E last \in BOOLEAN : PropsReport(t, fails, last)

\* One thread calling, over every behaviour of the errstring query.
PropsNext ==
    \/ \E op \in PropsOps : \E out \in NativeValues(1) : PropsCall(1, op, out)
    \/ \E fails \in 0..MaxFails : \E last \in BOOLEAN : PropsReport(1, fails, last)

\* --------------------- global_param_string, get_config_string, phase_si
QueryFrame == UNCHANGED <<lifeVars, errVars, gpc, done, growVars, idxVars, cfgVars, strVars, batchVars, seqVars, cloneVars, phaseVars, envVars, refVars, imposeVars, handleVars, fracVars, fpsVars, curveVars, tableVars>>

NoQuery == [op |-> "", param |-> "", has |-> TRUE, fails |-> 0, caps |-> <<>>,
            ok |-> TRUE, kind |-> "", errParam |-> "", context |-> "",
            message |-> EmptyStr]

QueryInit == qres = NoQuery

\* Names a caller asks for.
QueryParams == {"version", "no_such_param"}

\* coolprop_global_error(context): Error::CoolPropGlobalError { message:
\* "{context}: {message}" }, the message coming from global_param_string(
\* "errstring") or being "unknown error".  efails: how that query's attempts fail.
coolprop_global_error(q, context, efails) ==
    [q EXCEPT !.ok = FALSE, !.kind = "CoolPropGlobalError", !.context = context,
              !.message = MessageOr(GlobalLoop[efails].ok, errString)]

\* global_param_string(param): Ok at the first status 1; after the failing
\* attempt at the ceiling one more errstring query fills the message (`last`: it
\* got the string) of Error::GlobalParameter { param, message }.
GlobalParamString(param, fails, last) ==
    /\ QueryFrame
    /\ LET r == GlobalLoop[fails]
           q == [NoQuery EXCEPT !.op = "global_param_string", !.param = param,
                                !.fails = fails, !.caps = r.caps]
       IN  IF r.ok
             THEN /\ qres' = [q EXCEPT !.kind = "Ok"]
                  /\ UNCHANGED errString
             ELSE /\ qres' = [q EXCEPT !.ok = FALSE, !.kind = "GlobalParameter",
                                       !.errParam = param,
                                       !.message = IF last THEN NativeError(1)
                                                           ELSE EmptyStr]
                  /\ errString' = IF last THEN EmptyStr ELSE NativeError(1)

\* get_config_string(key): without cfg(coolprop_has_get_config_string) it is
\* Err(InvalidInput) and no native call; with it, the same loop, ending in
\* coolprop_global_error.
GetConfigString(key, has, fails, efails) ==
    /\ QueryFrame
    /\ LET r == GlobalLoop[fails]
           q == [NoQuery EXCEPT !.op = "get_config_string", !.param = key,
                                !.has = has, !.fails = fails]
       IN  IF ~has
             THEN /\ qres' = [q EXCEPT !.ok = FALSE, !.kind = "InvalidInput"]
                  /\ UNCHANGED errString
           ELSE IF r.ok
             THEN /\ qres' = [q EXCEPT !.kind = "Ok", !.caps = r.caps]
                  /\ UNCHANGED errString
             ELSE /\ qres' = coolprop_global_error([q EXCEPT !.caps = r.caps],
                                                   "get_config_string(", efails)
                  /\ errString' = EmptyStr

\* phase_si(name1, prop1, name2, prop2, fluid)
PhaseSI(fails, efails) ==
    /\ QueryFrame
    /\ LET r == PhaseLoop[fails]
           q == [NoQuery EXCEPT !.op = "phase_si", !.fails = fails, !.caps = r.caps]
       IN  IF r.ok
             THEN /\ qres' = [q EXCEPT !.kind = "Ok"]
                  /\ UNCHANGED errString
             ELSE /\ qres' = coolprop_global_error(q, "PhaseSI(", efails)
                  /\ errString' = EmptyStr

QueryNext ==
    \/ \E param \in QueryParams : \E fails \in 0..MaxFails : \E last \in BOOLEAN :
          GlobalParamString(param, fails, last)
    \/ \E key \in QueryParams : \E has \in BOOLEAN : \E fails \in 0..MaxFails :
          \E efails \in {0, MaxFails} : GetConfigString(key, has, fails, efails)
    \/ \E fails \in 0..MaxFails : \E efails \in {0, MaxFails} : PhaseSI(fails, efails)

\* ------------------------------ growable-buffer queries of AbstractState
GrowFrame == UNCHANGED <<lifeVars, errVars, globVars, queryVars, idxVars, cfgVars, strVars, batchVars, seqVars, cloneVars, phaseVars, envVars, refVars, imposeVars, handleVars, fracVars, fpsVars, curveVars, tableVars>>

DEFAULT_STR_BUF_LEN == 1024
EnvelopeDefaultPoints == 256
SpinodalStart == 256
SpinodalCeiling == 8192
CriticalStart == 4
CriticalCeiling == 64

Max(a, b) == IF a >= b THEN a ELSE b

FractionOps == {"mole_fractions", "mass_fractions", "mole_fractions_sat_state"}
\* the queries whose loop has no other exit than the native answer
GrowableOps == {"fluid_param_string", "phase_envelope"} \cup FractionOps
\* the queries that stop doubling at a fixed capacity
CappedOps == {"spinodal_data", "critical_points"}

NoGrow == [op |-> "", pc |-> "idle", capacity |-> 0, comps |-> 0, calls |-> 0,
           ok |-> TRUE, kind |-> "", len |-> 0]

GrowInit == grow = NoGrow

\* The call returns: Ok with a string / vector of `len` items, or Err(kind).
Finish(ok, kind, len) ==
    [grow EXCEPT !.pc = "done", !.ok = ok, !.kind = kind, !.len = len,
                 !.calls = grow.calls + 1]

\* `continue` with the next capacity.
Retry(capacity, comps) ==
    [grow EXCEPT !.capacity = capacity, !.comps = comps, !.calls = grow.calls + 1]

\* The model follows a loop only while its buffers are within MaxCapacity.
CanStep(op) ==
    /\ grow.pc = "loop"
    /\ grow.op = op
    /\ grow.capacity <= MaxCapacity
    /\ grow.comps <= MaxCapacity

\* buffer_saturated(buf): pos is the index of the first NUL, NoNul when none.
NoNul == -1
buffer_saturated(pos, len) == IF pos = NoNul THEN TRUE ELSE pos + 1 >= len

StartCapacity(op, est) ==
    CASE op = "fluid_param_string" -> DEFAULT_STR_BUF_LEN
      [] op = "spinodal_data" -> SpinodalStart
      [] op = "critical_points" -> CriticalStart
      [] OTHER -> Max(est, 1)

\* What comes before the loop.  pre = "nul": the parameter name holds a NUL
\* (fluid_param_string); "unsupported": no cfg(coolprop_has_abstractstate_get_
\* mass_fractions) (mass_fractions) or a phase without saturation token
\* (mole_fractions_sat_state); "names_failed": fluid_names() failed in
\* estimated_component_capacity; est: the number of names it counted.
GrowBegin(op, pre, est) ==
    /\ GrowFrame
    /\ grow.pc # "loop"
    /\ op \in {"fluid_param_string"} \cup FractionOps \cup CappedOps
    /\ pre = "nul" => op = "fluid_param_string"
    /\ pre = "unsupported" => op \in {"mass_fractions", "mole_fractions_sat_state"}
    /\ pre = "names_failed" => op \in FractionOps
    /\ grow' = CASE pre = "nul" ->
                      [NoGrow EXCEPT !.op = op, !.pc = "done", !.ok = FALSE,
                                     !.kind = "EmbeddedNul"]
                 [] pre = "unsupported" ->
                      [NoGrow EXCEPT !.op = op, !.pc = "done", !.ok = FALSE,
                                     !.kind = "InvalidInput"]
                 [] pre = "names_failed" ->
                      [NoGrow EXCEPT !.op = op, !.pc = "done", !.ok = FALSE,
                                     !.kind = "CoolProp", !.calls = 1]
                 [] OTHER ->
                      [NoGrow EXCEPT !.op = op, !.pc = "loop",
                                     !.capacity = StartCapacity(op, est),
                                     !.calls = IF op \in FractionOps THEN 1 ELSE 0]

\* One pass of the loop of AbstractState::fluid_param_string.
FluidParamStringStep(status, pos) ==
    /\ GrowFrame
    /\ CanStep("fluid_param_string")
    /\ grow' = IF status # 0 THEN Finish(FALSE, "CoolProp", 0)
               ELSE IF ~buffer_saturated(pos, grow.capacity)
                      THEN Finish(TRUE, "Ok", pos)
                      ELSE Retry(grow.capacity * 2, 0)

\* One pass of the loop of mole_fractions / mass_fractions /
\* mole_fractions_sat_state.  mentions: the error text contains "buffer" or
\* "Length of array"; count: what the native call stored in `count`.
FractionsStep(op, status, mentions, count) ==
    /\ GrowFrame
    /\ op \in FractionOps
    /\ CanStep(op)
    /\ grow' = IF status = 0
                 THEN LET actual == Max(count, 0) IN
                      IF actual > grow.capacity
                        THEN Retry(Max(actual, grow.capacity * 2), 0)
                        ELSE Finish(TRUE, "Ok", actual)
               ELSE IF mentions
                 THEN Retry(Max(grow.capacity, 1) * 2, 0)
                 ELSE Finish(FALSE, "CoolProp", 0)

\* phase_envelope up to its loop: the size query with zero-length buffers.
\* mentions: the error text contains "length" or "buffer".
PhaseEnvelopeQuery(status, mentions, len, comps, namesOk, est) ==
    /\ GrowFrame
    /\ grow.pc # "loop"
    /\ LET q == [NoGrow EXCEPT !.op = "phase_envelope", !.calls = 1]
           fail == [q EXCEPT !.pc = "done", !.ok = FALSE, !.kind = "CoolProp"]
           actual_length == IF status = 0 THEN len ELSE EnvelopeDefaultPoints
           actual_components == IF status = 0 THEN comps ELSE Max(est, 1)
           points_guess == Max(actual_length, 0)
           components_guess == Max(actual_components, 0)
       IN  grow' =
             IF status # 0 /\ ~mentions THEN fail
             ELSE IF status # 0 /\ ~namesOk THEN [fail EXCEPT !.calls = 2]
             ELSE IF points_guess = 0 /\ components_guess = 0
               THEN [q EXCEPT !.pc = "done", !.kind = "Ok"]
               ELSE [q EXCEPT !.pc = "loop",
                              !.capacity = IF points_guess = 0
                                             THEN EnvelopeDefaultPoints
                                             ELSE points_guess,
                              !.comps = IF components_guess = 0
                                          THEN 1 ELSE components_guess]

\* One pass of the loop of phase_envelope.
PhaseEnvelopeStep(status, mentions, len, comps) ==
    /\ GrowFrame
    /\ CanStep("phase_envelope")
    /\ LET actual_points == Max(len, 0)
           actual_components == Max(comps, 0)
       IN  grow' =
             IF status # 0
               THEN IF mentions
                      THEN Retry(Max(grow.capacity, 1) * 2, Max(grow.comps, 1) * 2)
                      ELSE Finish(FALSE, "CoolProp", 0)
             ELSE IF actual_points > grow.capacity \/ actual_components > grow.comps
               THEN Retry(Max(Max(grow.capacity, actual_points), 1) * 2,
                          Max(Max(grow.comps, actual_components), 1))
               ELSE Finish(TRUE, "Ok", actual_points)

\* One pass of the loop of spinodal_data.  filled: detect_filled_prefix, the
\* index after the last entry the native call made finite.
SpinodalStep(status, filled) ==
    /\ GrowFrame
    /\ CanStep("spinodal_data")
    /\ grow' = IF status # 0 THEN Finish(FALSE, "CoolProp", 0)
               ELSE IF filled >= grow.capacity /\ grow.capacity < SpinodalCeiling
                      THEN Retry(grow.capacity * 2, 0)
                      ELSE Finish(TRUE, "Ok", filled)

\* One pass of the loop of critical_points.  count: the index after the last
\* entry with finite, positive temperature and pressure and finite density.
CriticalStep(status, count) ==
    /\ GrowFrame
    /\ CanStep("critical_points")
    /\ grow' = IF status # 0 THEN Finish(FALSE, "CoolProp", 0)
               ELSE IF count >= grow.capacity /\ grow.capacity < CriticalCeiling
                      THEN Retry(grow.capacity * 2, 0)
                      ELSE Finish(TRUE, "Ok", count)

GrowStatuses == {0, 1}

\* What the native call can leave behind, relative to the buffer it was given.
NulChoice(k) == <<NoNul, 0, grow.capacity - 2, grow.capacity - 1>>[k]
CountChoice(k) == <<-1, 0, grow.capacity, grow.capacity + 1, 2 * MaxCapacity>>[k]
PointsChoice(k) == <<-1, 0, grow.capacity, 2 * grow.capacity>>[k]
ComponentsChoice(k) == <<0, grow.comps, 2 * grow.comps>>[k]
FilledChoice(k) == <<0, grow.capacity - 1, grow.capacity>>[k]

GrowNext ==
    \/ \E op \in GrowableOps \cup CappedOps :
          \E pre \in {"ok", "nul", "unsupported", "names_failed"} :
             \E est \in {1, 2} : GrowBegin(op, pre, est)
    \/ \E status \in GrowStatuses :
          \E k \in 1..4 : FluidParamStringStep(status, NulChoice(k))
    \/ \E op \in FractionOps : \E status \in GrowStatuses : \E mentions \in BOOLEAN :
          \E k \in 1..5 : FractionsStep(op, status, mentions, CountChoice(k))
    \/ \E status \in GrowStatuses : \E mentions \in BOOLEAN :
          \E len \in {-1, 0, 1, EnvelopeDefaultPoints} : \E comps \in {0, 1, 2} :
             \E namesOk \in BOOLEAN : \E est \in {1, 2} :
                PhaseEnvelopeQuery(status, mentions, len, comps, namesOk, est)
    \/ \E status \in GrowStatuses : \E mentions \in BOOLEAN :
          \E k \in 1..4 : \E c \in 1..3 :
             PhaseEnvelopeStep(status, mentions, PointsChoice(k), ComponentsChoice(c))
    \/ \E status \in GrowStatuses :
          \E k \in 1..3 : SpinodalStep(status, FilledChoice(k))
    \/ \E status \in GrowStatuses :
          \E k \in 1..3 : CriticalStep(status, FilledChoice(k))

\* ------------------------------------------- global_indices, Indices::load
IdxFrame == UNCHANGED <<lifeVars, errVars, globVars, queryVars, growVars, cfgVars, strVars, batchVars, seqVars, cloneVars, phaseVars, envVars, refVars, imposeVars, handleVars, fracVars, fpsVars, curveVars, tableVars>>

\* An Indices value, told apart by the thread whose load built it.
NoTable == [by |-> 0]
Table(t) == [by |-> t]

IdxInit ==
    /\ ipc = [t \in Threads |-> "idle"]
    /\ computed = [t \in Threads |-> NoTable]
    /\ ref = [t \in Threads |-> NoTable]
    /\ published = NoTable
    /\ loads = 0
    /\ everPublished = {}
    /\ stateTables = <<>>

\* OnceLock::set: stores only into an empty cell.
OnceSetOverwrites(cell, value) == value
OnceSet(cell, value) == IF cell = NoTable THEN value ELSE cell

\* AbstractState::new enters global_indices: INDICES.get() is Some -> return it;
\* None -> go on to Indices::load().
IdxGet(t) ==
    /\ IdxFrame
    /\ ipc[t] = "idle"
    /\ IF published # NoTable
         THEN /\ ipc' = [ipc EXCEPT ![t] = "have"]
              /\ ref' = [ref EXCEPT ![t] = published]
              /\ UNCHANGED loads
         ELSE /\ ipc' = [ipc EXCEPT ![t] = "pairs"]
              /\ loads' = loads + 1
              /\ UNCHANGED ref
    /\ UNCHANGED <<computed, published, everPublished, stateTables>>

\* Indices::load, first loop: get_input_pair_index for every InputPair.
LoadPairs(t) ==
    /\ IdxFrame
    /\ ipc[t] = "pairs"
    /\ ipc' = [ipc EXCEPT ![t] = "params"]
    /\ UNCHANGED <<computed, ref, published, loads, everPublished, stateTables>>

\* Indices::load, second loop: get_param_index for every Param; the table is built.
LoadParams(t) ==
    /\ IdxFrame
    /\ ipc[t] = "params"
    /\ ipc' = [ipc EXCEPT ![t] = "set"]
    /\ computed' = [computed EXCEPT ![t] = Table(t)]
    /\ UNCHANGED <<ref, published, loads, everPublished, stateTables>>

\* INDICES.set(computed), then INDICES.get() in either arm.
IdxSet(t) ==
    /\ IdxFrame
    /\ ipc[t] = "set"
    /\ published' = OnceSet(published, computed[t])
    /\ everPublished' = everPublished \cup {published'}
    /\ ref' = [ref EXCEPT ![t] = published']
    /\ computed' = [computed EXCEPT ![t] = NoTable]
    /\ ipc' = [ipc EXCEPT ![t] = "have"]
    /\ UNCHANGED <<loads, stateTables>>

\* The rest of AbstractState::new: the factory call succeeds (ok) and the new
\* state keeps the reference, or fails and nothing is created.
NewWithIndices(t, ok) ==
    /\ IdxFrame
    /\ ipc[t] = "have"
    /\ ok => Len(stateTables) < MaxHandles
    /\ stateTables' = IF ok THEN Append(stateTables, ref[t]) ELSE stateTables
    /\ ref' = [ref EXCEPT ![t] = NoTable]
    /\ ipc' = [ipc EXCEPT ![t] = "idle"]
    /\ UNCHANGED <<computed, published, loads, everPublished>>

IdxNext ==
    \/ \E t \in Threads : IdxGet(t)
    \/ \E t \in Threads : LoadPairs(t)
    \/ \E t \in Threads : LoadParams(t)
    \/ \E t \in Threads : IdxSet(t)
    \/ \E t \in Threads : \E ok \in BOOLEAN : NewWithIndices(t, ok)

\* ------------------------------------------------------------ claims C1..C3
HoldersOf(h) == {i \in Live : obj[i].handle = h}

\* C1: AbstractState_free is called exactly once for each handle a successful
\* factory call returned, once the AbstractState that owns it has been dropped:
\* never while it is owned, never twice, never for a value no factory call
\* returned; and every AbstractState ever built stands for one successful factory
\* call, so a failed new (embedded NUL, factory error) builds none and frees nothing.
C1_FreeExactlyOnce ==
    /\ \A h \in Handles :
          freeCount[h] = IF h \in issued /\ HoldersOf(h) = {} THEN 1 ELSE 0
    /\ nextObj - 1 = Cardinality(issued)
    /\ \A i \in ObjIds : obj[i].made => obj[i].handle \in issued

C1_Witness ==
    /\ failedNew
    /\ \E h \in Handles : freeCount[h] = 1
    /\ \E i \in Live : freeCount[obj[i].handle] = 0

\* C2 as claimed: after the release no wrapper operation passes the handle to a
\* native call, and no handle value the caller obtained (handle() included) is
\* still with the caller.
C2_NoHandleAfterRelease ==
    /\ ~staleUse
    /\ \A h \in rawHandles : NativeLive(h)

\* C2 as amended: no wrapper operation passes a released handle to a native call,
\* and no AbstractState that still exists holds a released handle.  (An integer
\* returned earlier by handle() stays with the caller.)
C2_WrapperNeverUsesReleased ==
    /\ ~staleUse
    /\ \A i \in Live : NativeLive(obj[i].handle)

C2_Witness ==
    /\ \E h \in rawHandles : freeCount[h] = 1
    /\ \E t \in Threads : inCall[t] # 0

\* C3: in every interleaving at most one thread at a time is inside a native call
\* with a given handle, and a thread passes to the native library only the handle
\* of an AbstractState it owns, also after the value moved between threads.
C3_OneThreadPerHandle ==
    /\ ~overlap
    /\ \A t \in Threads : \A u \in Threads \ {t} :
          inCall[t] # 0 => inCall[t] # inCall[u]
    /\ \A t \in Threads :
          inCall[t] # 0 => \E i \in Live : obj[i].handle = inCall[t] /\ obj[i].owner = t

C3_Witness ==
    /\ \A t \in Threads : inCall[t] # 0
    /\ \E i \in Live : obj[i].moved /\ inCall[obj[i].owner] = obj[i].handle


\* ------------------------------------------- call_with_error, c_buf_to_string
\* Bytes the native library may leave in a buffer: NUL, 'a', the two bytes of
\* U+00E9 (0xC3 0xA9) and 0xFF, which is never valid UTF-8.
Bytes == {0, 97, 195, 169, 255}
\* U+FFFD REPLACEMENT CHARACTER
Replacement == 65533

IsCont(b) == b >= 128 /\ b <= 191
IsLead2(b) == b >= 194 /\ b <= 223

\* String::from_utf8_lossy on bytes below 0xE0 or above 0xF4: an ASCII byte is its
\* own character, a two-byte sequence is one character, and every byte that is
\* part of no valid sequence becomes U+FFFD.  A string is its code points.
RECURSIVE FromUtf8Lossy(_)
FromUtf8Lossy(bytes) ==
    IF bytes = <<>> THEN <<>>
    ELSE IF Head(bytes) < 128
        THEN <<Head(bytes)>> \o FromUtf8Lossy(Tail(bytes))
    ELSE IF IsLead2(Head(bytes)) /\ Len(bytes) >= 2 /\ IsCont(bytes[2])
        THEN <<(Head(bytes) - 192) * 64 + (bytes[2] - 128)>>
                 \o FromUtf8Lossy(Tail(Tail(bytes)))
    ELSE <<Replacement>> \o FromUtf8Lossy(Tail(bytes))

\* CStr::from_bytes_until_nul: the bytes before the first NUL, when there is one.
RECURSIVE UntilNul(_)
UntilNul(bytes) ==
    IF bytes = <<>> \/ Head(bytes) = 0 THEN <<>>
    ELSE <<Head(bytes)>> \o UntilNul(Tail(bytes))

HasNul(bytes) == \E k \in 1..Len(bytes) : bytes[k] = 0

\* str::trim_end_matches('\0')
RECURSIVE TrimEndNul(_)
TrimEndNul(str) ==
    IF str # <<>> /\ str[Len(str)] = 0
        THEN TrimEndNul(SubSeq(str, 1, Len(str) - 1))
        ELSE str

\* c_buf_to_string(buf)
c_buf_to_string(buf) ==
    IF HasNul(buf)
        THEN FromUtf8Lossy(UntilNul(buf))
        ELSE TrimEndNul(FromUtf8Lossy(buf))

\* Result<R>: Ok(value), or Err(Error::CoolProp { code, message }).
NoValue == 0
Ok(v) == [ok |-> TRUE, value |-> v, code |-> 0, message |-> <<>>]
ErrCoolProp(c, m) == [ok |-> FALSE, value |-> NoValue, code |-> c, message |-> m]

\* buf[ERR_BUF_LEN - 1] = 0
ForceNulKept(buf) == buf
ForceNul(buf) == [buf EXCEPT ![Len(buf)] = 0]

\* call_with_error(f), f having left `status` and `buf` and returned `ret`.
call_with_error(status, buf, ret) ==
    IF status # 0
        THEN ErrCoolProp(status, c_buf_to_string(ForceNul(buf)))
        ELSE Ok(ret)

\* What a native call can leave in the message buffer, the status and its result.
ErrBufs == [1..ErrBufLen -> Bytes]
Statuses == {-1, 0, 1}
NativeRets == {7, 8}

NotCalled == [called |-> FALSE, status |-> 0, buf |-> <<>>, ret |-> NoValue]

ErrFrame == UNCHANGED <<lifeVars, globVars, queryVars, growVars, idxVars, cfgVars, strVars, batchVars, seqVars, cloneVars, phaseVars, envVars, refVars, imposeVars, handleVars, fracVars, fpsVars, curveVars, tableVars>>

ErrInit ==
    /\ cweIn = NotCalled
    /\ cweOut = Ok(NoValue)

\* One operation that returns call_with_error's result as it is (update, get,
\* specify_phase, set_fractions, ...), for one answer of the native call.
CallWithError(status, buf, ret) ==
    /\ ErrFrame
    /\ ~cweIn.called
    /\ cweIn' = [called |-> TRUE, status |-> status, buf |-> buf, ret |-> ret]
    /\ cweOut' = call_with_error(status, buf, ret)

ErrNext ==
    \E status \in Statuses : \E buf \in ErrBufs : \E ret \in NativeRets :
        CallWithError(status, buf, ret)

\* ------------------------------------------------------------------ claim C4
\* The place of the first NUL of the buffer once its last byte is NUL.
FirstNulForced(buf) ==
    CHOOSE k \in 1..Len(buf) :
        /\ (buf[k] = 0 \/ k = Len(buf))
        /\ \A j \in 1..(k - 1) : buf[j] # 0

C5_FiniteOrReported ==
    done.kind # "" =>
        /\ is_finite(done.out) =>
              done.ok /\ done.value = done.out /\ done.calls = 1
        /\ ~is_finite(done.out) =>
              /\ ~done.ok /\ done.kind = "Computation"
              /\ done.calls >= 2
              /\ done.op = "props_si" => done.context = "PropsSI("
              /\ done.op = "props1_si" => done.context = "Props1SI("
              /\ done.op = "ha_props_si" => done.context = "HAPropsSI("
              /\ done.message = IF done.fetched THEN done.retrieved ELSE UnknownError
              /\ done.fetched => done.retrieved = NativeError(done.t)

C5_Witness ==
    /\ done.op = "ha_props_si"
    /\ done.out = NaN
    /\ done.fetched
    /\ done.message = NativeError(1)

\* 2^k
RECURSIVE Pow2(_)
Pow2(k) == IF k = 0 THEN 1 ELSE 2 * Pow2(k - 1)

QueryStart(op) == IF op = "phase_si" THEN 64 ELSE 256
QueryAttempts(op) == IF op = "phase_si" THEN 7 ELSE 13

\* C6: global_param_string, get_config_string (start 256, ceiling 2^20) and phase_si
\* (start 64, ceiling 4096) make attempt k with a buffer of start * 2^k bytes,
\* return Ok at the first attempt whose native status is 1, and after a failing
\* attempt at the ceiling return the terminal error (Error::GlobalParameter with
\* the parameter name, Error::CoolPropGlobalError for the other two): at most 13
\* (7 for phase_si) attempts, whatever the native library answers.
C6_BoundedRetry ==
    qres.op # "" =>
        LET n == Len(qres.caps) IN
        /\ n <= QueryAttempts(qres.op)
        /\ \A k \in 1..n : qres.caps[k] = QueryStart(qres.op) * Pow2(k - 1)
        /\ qres.ok => n = qres.fails + 1
        /\ (qres.has /\ qres.fails < QueryAttempts(qres.op)) => qres.ok
        /\ (~qres.ok /\ qres.has) =>
              /\ n = QueryAttempts(qres.op)
              /\ qres.caps[n] = IF qres.op = "phase_si" THEN 4096 ELSE 1048576
              /\ qres.kind = IF qres.op = "global_param_string"
                                THEN "GlobalParameter" ELSE "CoolPropGlobalError"
              /\ qres.op = "global_param_string" => qres.errParam = qres.param

\* Each of the three queries can end in its terminal error at the ceiling.
C6_Witness ==
    /\ qres.op = "phase_si"
    /\ ~qres.ok
    /\ Len(qres.caps) = 7
    /\ qres.caps[7] = 4096

\* C10: when several threads call props_si / ha_props_si side by side, each call
\* returns the value of its own native call, or an Error::Computation whose
\* message, when the errstring query succeeded, is the error string its own
\* failing native call produced.
C10_OwnResult ==
    done.kind # "" =>
        /\ done.ok => done.value = Finite(done.t)
        /\ (~done.ok /\ done.fetched) => done.message = NativeError(done.t)

\* ----------------------------------------------------------- claims C7, C8
\* C7: a growable-buffer query of an AbstractState (fluid_param_string,
\* mole_fractions, mass_fractions, mole_fractions_sat_state, phase_envelope)
\* retries only up to a hard ceiling: it never goes on to another attempt with a
\* buffer larger than the largest ceiling the crate uses (2^20, GlobalCeiling).
C7_RetryStopsAtCeiling ==
    (grow.op \in GrowableOps /\ grow.pc = "loop") => grow.capacity <= GlobalCeiling

\* C8: spinodal_data (ceiling 8192) and critical_points (ceiling 64) do not
\* return Ok when the data still fills the whole buffer at the ceiling capacity:
\* an Ok result at the ceiling is shorter than the buffer.
C8_FullAtCeilingIsError ==
    (/\ grow.op \in CappedOps
     /\ grow.pc = "done"
     /\ grow.ok
     /\ grow.capacity = IF grow.op = "spinodal_data" THEN 8192 ELSE 64)
        => grow.len < grow.capacity

\* ---------------------------------------------------------------- claim C9
\* C9 as stated: across any number of AbstractState::new calls, first calls
\* racing on several threads included, the native lookups of Indices::load are
\* executed for one load only.
C9_OneLoadOnly == loads <= 1

\* C9, amended: the INDICES cell is filled once and never changes afterwards;
\* every reference global_indices returns and every AbstractState ever created
\* refers to the table in the cell (threads racing on the first call may each
\* run Indices::load, and the tables of the losers are dropped).
C9_OneTablePublished ==
    /\ Cardinality(everPublished) <= 1
    /\ published # NoTable => everPublished = {published}
    /\ \A t \in Threads : ref[t] # NoTable => ref[t] = published
    /\ \A i \in 1..Len(stateTables) :
          stateTables[i] # NoTable /\ stateTables[i] = published

\* Two threads raced through Indices::load, and states were created on both sides.
C9_Witness ==
    /\ loads >= 2
    /\ published # NoTable
    /\ Len(stateTables) >= 2

\* ------------------------------------------- config_call, set_config_*, get_config_*
CfgFrame == UNCHANGED <<lifeVars, errVars, gpc, done, queryVars, growVars, idxVars, strVars, batchVars, seqVars, cloneVars, phaseVars, envVars, refVars, imposeVars, handleVars, fracVars, fpsVars, curveVars, tableVars>>

SetOps == {"set_config_bool", "set_config_double", "set_config_string"}
GetOps == {"get_config_bool", "get_config_double", "get_config_string"}

\* The type of value an operation carries.
TypeOf(op) ==
    CASE op \in {"set_config_bool", "get_config_bool"} -> "bool"
      [] op \in {"set_config_double", "get_config_double"} -> "double"
      [] OTHER -> "string"

\* Keys of the native configuration and the type each one holds; the native
\* library knows no other key.
ConfigKeys == {"NORMALIZE_GAS_CONSTANTS", "SPINODAL_MINIMUM_DELTA", "FLOAT_PUNCTUATION"}
CallerKeys == ConfigKeys \cup {"NO_SUCH_KEY"}
KeyType(key) ==
    CASE key = "NORMALIZE_GAS_CONSTANTS" -> "bool"
      [] key = "SPINODAL_MINIMUM_DELTA" -> "double"
      [] key = "FLOAT_PUNCTUATION" -> "string"
      [] OTHER -> "none"

\* A value is its type and its content: a string is its code points ("." "," "é"),
\* a bool is <<0>> or <<1>>, a double is one of two numbers.
Val(type, v) == [type |-> type, v |-> v]
NoVal == Val("none", <<>>)
ValuesOf(type) ==
    CASE type = "bool" -> {Val("bool", <<0>>), Val("bool", <<1>>)}
      [] type = "double" -> {Val("double", <<5>>), Val("double", <<15>>)}
      [] OTHER -> {Val("string", <<46>>), Val("string", <<233>>)}

\* CString::new(value): the UTF-8 bytes of a &str (code points below U+0800).
RECURSIVE ToUtf8(_)
ToUtf8(str) ==
    IF str = <<>> THEN <<>>
    ELSE IF Head(str) < 128 THEN <<Head(str)>> \o ToUtf8(Tail(str))
    ELSE <<192 + (Head(str) \div 64), 128 + (Head(str) % 64)>> \o ToUtf8(Tail(str))

\* What the native side stores for a value handed over by a setter, and what a
\* getter turns the stored content into (get_config_string: the buffer is the
\* stored bytes and a NUL, read back by c_buf_to_string).
Stored(value) ==
    IF value.type = "string" THEN Val("string", ToUtf8(value.v)) ELSE value
Fetched(stored) ==
    IF stored.type = "string"
        THEN Val("string", c_buf_to_string(stored.v \o <<0>>))
        ELSE stored

\* format!("set_config_string({key})") and its siblings
CfgContext(op) ==
    CASE op = "set_config_bool" -> "set_config_bool("
      [] op = "set_config_double" -> "set_config_double("
      [] op = "set_config_string" -> "set_config_string("
      [] op = "get_config_bool" -> "get_config_bool("
      [] op = "get_config_double" -> "get_config_double("
      [] OTHER -> "get_config_string("

\* The error string a rejected setter leaves, and one left by an earlier call.
SetterError == [text |-> "setter rejected", by |-> 1]
EarlierError == [text |-> "earlier call", by |-> 1]

\* No set_config_* call has returned Ok since the last one began.
NoSet == [key |-> "", value |-> NoVal]

CfgIdle == [step |-> "idle", op |-> "", key |-> "", value |-> NoVal,
            stale |-> EmptyStr, cleared |-> FALSE, accepted |-> FALSE]

NoCfg == [op |-> "", key |-> "", value |-> NoVal, ok |-> TRUE, kind |-> "",
          label |-> "", context |-> "", message |-> EmptyStr, native |-> FALSE,
          stale |-> EmptyStr, cleared |-> FALSE, accepted |-> FALSE,
          readOk |-> FALSE, has |-> TRUE, got |-> NoVal]

CfgInit ==
    /\ store = [k \in ConfigKeys |-> Stored(CHOOSE v \in ValuesOf(KeyType(k)) : TRUE)]
    /\ cpc = CfgIdle
    /\ cres = NoCfg
    /\ assured = NoSet

\* Some earlier native call failed and nobody fetched its error string.
EarlierFailure ==
    /\ CfgFrame
    /\ cpc.step = "idle"
    /\ errString = EmptyStr
    /\ errString' = EarlierError
    /\ UNCHANGED <<store, cpc, cres, assured>>

\* set_config_bool / set_config_double / set_config_string up to config_call:
\* the CString::new checks of the key and, for a string, of the value.
SetConfigBegin(op, key, value, keyNul, valueNul) ==
    /\ CfgFrame
    /\ cpc.step = "idle"
    /\ op \in SetOps
    /\ value \in ValuesOf(TypeOf(op))
    /\ valueNul => op = "set_config_string"
    /\ LET r == [NoCfg EXCEPT !.op = op, !.key = key, !.value = value] IN
       IF keyNul
         THEN /\ cres' = [r EXCEPT !.ok = FALSE, !.kind = "EmbeddedNul",
                                   !.label = "config key"]
              /\ UNCHANGED <<cpc, assured>>
       ELSE IF valueNul
         THEN /\ cres' = [r EXCEPT !.ok = FALSE, !.kind = "EmbeddedNul",
                                   !.label = "config value"]
              /\ UNCHANGED <<cpc, assured>>
         ELSE /\ cpc' = [CfgIdle EXCEPT !.step = "clear", !.op = op, !.key = key,
                                        !.value = value, !.stale = errString]
              /\ assured' = NoSet
              /\ cres' = NoCfg
    /\ UNCHANGED <<store, errString>>

\* let _ = global_param_string("errstring"): a read that succeeds empties the
\* native error string (got); one that fails may leave it as it was.
DiscardReadSkipped(cur, got) == cur
DiscardRead(cur, got) == IF got THEN EmptyStr ELSE cur

\* config_call, first step.
ConfigClear(fails, last) ==
    /\ CfgFrame
    /\ cpc.step = "clear"
    /\ LET got == GlobalLoop[fails].ok \/ last IN
       /\ errString' = DiscardRead(errString, got)
       /\ cpc' = [cpc EXCEPT !.step = "set", !.cleared = got]
    /\ UNCHANGED <<store, cres, assured>>

\* config_call, second step: action().  The native setter stores the value for
\* a key of that type unless it rejects it; a rejected call sets the error string.
ConfigSet(rejects) ==
    /\ CfgFrame
    /\ cpc.step = "set"
    /\ LET accepted == KeyType(cpc.key) = TypeOf(cpc.op) /\ ~rejects IN
       /\ store' = IF accepted THEN [store EXCEPT ![cpc.key] = Stored(cpc.value)]
                               ELSE store
       /\ errString' = IF accepted THEN errString ELSE SetterError
       /\ cpc' = [cpc EXCEPT !.step = "check", !.accepted = accepted]
    /\ UNCHANGED <<cres, assured>>

\* config_call, third step: match global_param_string("errstring").
ConfigCheck(fails, last) ==
    /\ CfgFrame
    /\ cpc.step = "check"
    /\ LET read == GlobalLoop[fails]
           r == [NoCfg EXCEPT !.op = cpc.op, !.key = cpc.key, !.value = cpc.value,
                              !.native = TRUE, !.stale = cpc.stale,
                              !.cleared = cpc.cleared, !.accepted = cpc.accepted,
                              !.readOk = read.ok]
       IN  IF read.ok
             THEN /\ cres' = IF errString = EmptyStr
                               THEN [r EXCEPT !.kind = "Ok"]
                               ELSE [r EXCEPT !.ok = FALSE,
                                              !.kind = "CoolPropGlobalError",
                                              !.context = CfgContext(cpc.op),
                                              !.message = errString]
                  /\ errString' = EmptyStr
                  /\ assured' = IF errString = EmptyStr
                                  THEN [key |-> cpc.key, value |-> cpc.value]
                                  ELSE assured
             ELSE /\ cres' = [r EXCEPT !.ok = FALSE, !.kind = "GlobalParameter",
                                       !.message = IF last THEN errString ELSE EmptyStr]
                  /\ errString' = IF last THEN EmptyStr ELSE errString
                  /\ UNCHANGED assured
    /\ cpc' = CfgIdle
    /\ UNCHANGED store

\* get_config_bool / get_config_double / get_config_string.  has: the crate was
\* compiled with the cfg flag of that getter; grows: attempts of get_config_string
\* that found the buffer too small; the native getter answers status 1 for a key
\* it knows with that type.
GetConfig(op, key, keyNul, has, grows) ==
    /\ CfgFrame
    /\ cpc.step = "idle"
    /\ op \in GetOps
    /\ grows > 0 => op = "get_config_string"
    /\ LET r == [NoCfg EXCEPT !.op = op, !.key = key, !.has = has]
           known == KeyType(key) = TypeOf(op)
       IN  IF keyNul
             THEN /\ cres' = [r EXCEPT !.ok = FALSE, !.kind = "EmbeddedNul",
                                       !.label = "config key"]
                  /\ UNCHANGED errString
           ELSE IF ~has
             THEN /\ cres' = [r EXCEPT !.ok = FALSE, !.kind = "InvalidInput"]
                  /\ UNCHANGED errString
           ELSE IF known /\ GlobalLoop[grows].ok
             THEN /\ cres' = [r EXCEPT !.kind = "Ok", !.native = TRUE,
                                       !.got = Fetched(store[key])]
                  /\ UNCHANGED errString
             ELSE /\ cres' = [r EXCEPT !.ok = FALSE, !.kind = "CoolPropGlobalError",
                                       !.native = TRUE, !.context = CfgContext(op),
                                       !.message = MessageOr(TRUE, SetterError)]
                  /\ errString' = EmptyStr
    /\ UNCHANGED <<store, cpc, assured>>

CfgNext ==
    \/ EarlierFailure
    \/ \E op \in SetOps : \E key \in CallerKeys :
          \E value \in ValuesOf("bool") \cup ValuesOf("double") \cup ValuesOf("string") :
             \E keyNul \in BOOLEAN : \E valueNul \in BOOLEAN :
                SetConfigBegin(op, key, value, keyNul, valueNul)
    \/ \E fails \in {0, MaxFails} : \E last \in BOOLEAN : ConfigClear(fails, last)
    \/ \E rejects \in BOOLEAN : ConfigSet(rejects)
    \/ \E fails \in {0, MaxFails} : \E last \in BOOLEAN : ConfigCheck(fails, last)
    \/ \E op \in GetOps : \E key \in CallerKeys : \E keyNul \in BOOLEAN :
          \E has \in BOOLEAN : \E grows \in 0..2 : GetConfig(op, key, keyNul, has, grows)

\* --------------------------------------------------------- claims C11, C20
\* C11 as stated: a set_config_* call that reached config_call returns Ok exactly
\* when the setter left no error, and otherwise Err(Error::CoolPropGlobalError)
\* with the setter's error string, whatever earlier calls left behind.
C11_OkIffSetterClean ==
    (cres.op \in SetOps /\ cres.native) =>
        /\ cres.ok <=> cres.accepted
        /\ ~cres.ok => cres.kind = "CoolPropGlobalError" /\ cres.message = SetterError

\* C11, amended: when both errstring queries of config_call succeed, the call
\* returns Ok exactly when the setter left no error and otherwise
\* Err(Error::CoolPropGlobalError) with "<context>: <the setter's error string>",
\* whatever earlier calls left behind.  When the final query fails the call
\* returns that query's Err(Error::GlobalParameter), also after a setter that
\* succeeded; when the first query did not empty the error string, a string left
\* by an earlier call is reported as the error of a setter that succeeded.
C11_ConfigCallOutcome ==
    (cres.op \in SetOps /\ cres.native) =>
        /\ (cres.readOk /\ cres.cleared) =>
              /\ cres.ok <=> cres.accepted
              /\ ~cres.ok => /\ cres.kind = "CoolPropGlobalError"
                             /\ cres.context = CfgContext(cres.op)
                             /\ cres.message = SetterError
        /\ (cres.readOk /\ ~cres.cleared /\ cres.accepted) =>
              /\ cres.ok <=> cres.stale = EmptyStr
              /\ ~cres.ok => cres.kind = "CoolPropGlobalError" /\ cres.message = cres.stale
        /\ ~cres.readOk => ~cres.ok /\ cres.kind = "GlobalParameter"
        /\ cres.ok => cres.accepted

\* A setter succeeded although an earlier call had left an error string behind.
C11_Witness ==
    /\ cres.op = "set_config_double"
    /\ cres.ok
    /\ cres.stale = EarlierError
    /\ cres.cleared

\* C20: after a set_config_* of key k returned Ok(v), with no later set, the
\* getter of that type returns Ok(v) for k.
C20_RoundTrip ==
    (/\ cres.op \in GetOps
     /\ cres.kind # "EmbeddedNul"
     /\ assured.key = cres.key
     /\ assured.value.type = TypeOf(cres.op))
        => cres.ok /\ cres.got = assured.value

\* --------------------------------------------- CString::new argument checks
StrFrame == UNCHANGED <<lifeVars, errVars, globVars, queryVars, growVars, idxVars, cfgVars, batchVars, seqVars, cloneVars, phaseVars, envVars, refVars, imposeVars, handleVars, fracVars, fpsVars, curveVars, tableVars>>

\* The public operations that take string arguments, each with its string
\* parameters in the order of its signature.
ParamNames(op) ==
    CASE op = "AbstractState::new" -> <<"backend", "fluid">>
      [] op = "AbstractState::fluid_param_string" -> <<"param">>
      [] op = "set_binary_interaction_double" -> <<"parameter">>
      [] op = "set_cubic_alpha_c" -> <<"parameter">>
      [] op = "set_fluid_parameter_double" -> <<"parameter">>
      [] op = "build_phase_envelope" -> <<"level">>
      [] op = "props_si" -> <<"output", "name1", "name2", "fluid">>
      [] op = "props1_si" -> <<"output", "fluid">>
      [] op = "ha_props_si" -> <<"output", "name1", "name2", "name3">>
      [] op = "global_param_string" -> <<"param">>
      [] op = "fluid_param_string" -> <<"fluid", "param">>
      [] op = "phase_si" -> <<"name1", "name2", "fluid">>
      [] op = "set_reference_state" -> <<"fluid", "reference_state">>
      [] op = "set_config_string" -> <<"key", "value">>
      [] OTHER -> <<"key">>

StrOps ==
    {"AbstractState::new", "AbstractState::fluid_param_string",
     "set_binary_interaction_double", "set_cubic_alpha_c",
     "set_fluid_parameter_double", "build_phase_envelope", "props_si", "props1_si",
     "ha_props_si", "global_param_string", "fluid_param_string", "phase_si",
     "set_reference_state", "set_config_string", "set_config_double",
     "set_config_bool", "get_config_bool", "get_config_double", "get_config_string"}

\* The CString::new(..).map_err(..)? lines of each operation, in the order the
\* code runs them: <<position of the argument in the signature, label>>.
Checks(op) ==
    CASE op = "AbstractState::new" -> << <<1, "backend">>, <<2, "fluid">> >>
      [] op = "AbstractState::fluid_param_string" -> << <<1, "param">> >>
      [] op = "set_binary_interaction_double" -> << <<1, "parameter">> >>
      [] op = "set_cubic_alpha_c" -> << <<1, "parameter">> >>
      [] op = "set_fluid_parameter_double" -> << <<1, "parameter">> >>
      [] op = "build_phase_envelope" -> << <<1, "level">> >>
      [] op = "props_si" ->
            << <<1, "output">>, <<2, "name1">>, <<3, "name2">>, <<4, "fluid">> >>
      [] op = "props1_si" -> << <<1, "output">>, <<2, "fluid">> >>
      [] op = "ha_props_si" ->
            << <<1, "output">>, <<2, "name1">>, <<3, "name2">>, <<4, "name3">> >>
      [] op = "global_param_string" -> << <<1, "param">> >>
      [] op = "fluid_param_string" -> << <<1, "fluid">>, <<2, "param">> >>
      [] op = "phase_si" -> << <<1, "name1">>, <<2, "name2">>, <<3, "fluid">> >>
      [] op = "set_reference_state" -> << <<1, "fluid">>, <<2, "reference_state">> >>
      [] op = "set_config_string" -> << <<1, "config key">>, <<2, "config value">> >>
      [] OTHER -> << <<1, "config key">> >>

\* The native function the operation exists to call.
EntryPoint(op) ==
    CASE op = "AbstractState::new" -> "AbstractState_factory"
      [] op = "AbstractState::fluid_param_string" -> "AbstractState_fluid_param_string"
      [] op = "set_binary_interaction_double" -> "AbstractState_set_binary_interaction_double"
      [] op = "set_cubic_alpha_c" -> "AbstractState_set_cubic_alpha_C"
      [] op = "set_fluid_parameter_double" -> "AbstractState_set_fluid_parameter_double"
      [] op = "build_phase_envelope" -> "AbstractState_build_phase_envelope"
      [] op = "props_si" -> "PropsSI"
      [] op = "props1_si" -> "Props1SI"
      [] op = "ha_props_si" -> "HAPropsSI"
      [] op = "global_param_string" -> "get_global_param_string"
      [] op = "fluid_param_string" -> "get_fluid_param_string_len"
      [] op = "phase_si" -> "PhaseSI"
      [] op = "set_reference_state" -> "set_reference_stateS"
      [] OTHER -> op

\* The first check, in the order the code runs them, whose argument holds a NUL
\* byte; 0 when every check passes.  nul: the positions of the arguments that do.
LastFailing(checks, nul) ==
    IF \E k \in 1..Len(checks) : checks[k][1] \in nul
        THEN CHOOSE k \in 1..Len(checks) :
                /\ checks[k][1] \in nul
                /\ \A j \in (k + 1)..Len(checks) : checks[j][1] \notin nul
        ELSE 0
FirstFailing(checks, nul) ==
    IF \E k \in 1..Len(checks) : checks[k][1] \in nul
        THEN CHOOSE k \in 1..Len(checks) :
                /\ checks[k][1] \in nul
                /\ \A j \in 1..(k - 1) : checks[j][1] \notin nul
        ELSE 0

NoStr == [op |-> "", nul |-> {}, ok |-> TRUE, kind |-> "", label |-> "",
          arg |-> 0, entered |-> FALSE, before |-> ""]

StrInit ==
    /\ sres = NoStr
    /\ lastEntry = ""

\* One call of a string-taking operation.  nativeOk: the native side reports
\* success, when it is reached.  A getter compiled without its cfg flag (has)
\* stops after the key check.
StringOp(op, nul, has, nativeOk) ==
    /\ StrFrame
    /\ nul \subseteq 1..Len(ParamNames(op))
    /\ ~has => op \in GetOps
    /\ LET k == FirstFailing(Checks(op), nul)
           r == [NoStr EXCEPT !.op = op, !.nul = nul, !.before = lastEntry]
       IN  IF k # 0
             THEN /\ sres' = [r EXCEPT !.ok = FALSE, !.kind = "EmbeddedNul",
                                       !.label = Checks(op)[k][2],
                                       !.arg = Checks(op)[k][1]]
                  /\ UNCHANGED lastEntry
           ELSE IF ~has
             THEN /\ sres' = [r EXCEPT !.ok = FALSE, !.kind = "InvalidInput"]
                  /\ UNCHANGED lastEntry
             ELSE /\ sres' = [r EXCEPT !.ok = nativeOk, !.entered = TRUE,
                                       !.kind = IF nativeOk THEN "Ok" ELSE "Native"]
                  /\ lastEntry' = EntryPoint(op)

StrNext ==
    \E op \in StrOps : \E nul \in SUBSET (1..4) : \E has \in BOOLEAN :
       \E nativeOk \in BOOLEAN : StringOp(op, nul, has, nativeOk)

\* ---------------------------------------------------------------- claim C12
Least(S) == CHOOSE x \in S : \A y \in S : x <= y

\* C12: an operation called with an interior NUL byte in one or more string
\* arguments returns Err(Error::EmbeddedNul) labelled with the first of them in
\* the order of its signature, and its native entry point is not invoked.
C12_EmbeddedNulFirst ==
    (sres.op # "" /\ sres.nul # {}) =>
        /\ ~sres.ok
        /\ sres.kind = "EmbeddedNul"
        /\ sres.arg = Least(sres.nul)
        /\ sres.label = IF sres.op \in SetOps \cup GetOps
                          THEN IF sres.arg = 1 THEN "config key" ELSE "config value"
                          ELSE ParamNames(sres.op)[sres.arg]
        /\ ~sres.entered
        /\ lastEntry = sres.before

\* props_si with NUL bytes in name2 and fluid, after some other native call.
C12_Witness ==
    /\ sres.op = "props_si"
    /\ sres.nul = {3, 4}
    /\ sres.label = "name2"
    /\ sres.before = "AbstractState_factory"

\* ------------------------ update_and_common_out, update_and_1_out, update_and_5_out
BatchFrame == UNCHANGED <<lifeVars, errVars, globVars, queryVars, growVars, idxVars, cfgVars, strVars, seqVars, cloneVars, phaseVars, envVars, refVars, imposeVars, handleVars, fracVars, fpsVars, curveVars, tableVars>>

BatchOps == {"update_and_common_out", "update_and_1_out", "update_and_5_out"}

\* Input slices: up to MaxBatch values each; the second slice of a call varies
\* in length only.
BatchValues == {1, 2}
BatchSlices == UNION {[1..n -> BatchValues] : n \in 0..MaxBatch}
SecondSlices == UNION {[1..n -> {1}] : n \in 0..MaxBatch}

\* Number of vectors the operation returns.
OutputsOf(op) == IF op = "update_and_1_out" THEN 1 ELSE 5

\* if value1.len() != value2.len() { return Err(..) }
SameLengthUnchecked(value1, value2) == TRUE
SameLength(value1, value2) == Len(value1) = Len(value2)

\* vec![0.0; len], written by the native call: entry i of output j is the
\* property j at the point (value1[i], value2[i]).
OutVector(j, value1, value2) ==
    [i \in 1..Len(value1) |->
        [out |-> j, v1 |-> value1[i],
         v2 |-> IF i <= Len(value2) THEN value2[i] ELSE 0]]

\* The point the native state was updated to last.
NoPoint == [v1 |-> 0, v2 |-> 0]

NoBatch == [op |-> "", value1 |-> <<>>, value2 |-> <<>>, ok |-> TRUE, kind |-> "",
            outs |-> <<>>, native |-> FALSE, before |-> NoPoint]

BatchInit ==
    /\ bres = NoBatch
    /\ point = NoPoint

\* One batched update.  status: what the native call reports; reached: how many
\* points it had applied to the state when it failed.
BatchUpdate(op, value1, value2, status, reached) ==
    /\ BatchFrame
    /\ reached <= Len(value1)
    /\ reached <= Len(value2)
    /\ status = 0 => reached = 0
    /\ LET r == [NoBatch EXCEPT !.op = op, !.value1 = value1, !.value2 = value2,
                                !.before = point]
           len == Len(value1)
       IN  IF ~SameLength(value1, value2)
             THEN /\ bres' = [r EXCEPT !.ok = FALSE, !.kind = "InvalidInput"]
                  /\ UNCHANGED point
           ELSE IF status # 0
             THEN /\ bres' = [r EXCEPT !.ok = FALSE, !.kind = "CoolProp",
                                       !.native = TRUE]
                  /\ point' = IF reached = 0 THEN point
                              ELSE [v1 |-> value1[reached], v2 |-> value2[reached]]
             ELSE /\ bres' = [r EXCEPT !.kind = "Ok", !.native = TRUE,
                                       !.outs = [j \in 1..OutputsOf(op) |->
                                                    OutVector(j, value1, value2)]]
                  /\ point' = IF len = 0 THEN point
                              ELSE [v1 |-> value1[len], v2 |-> value2[len]]

BatchNext ==
    \E op \in BatchOps : \E value1 \in BatchSlices : \E value2 \in SecondSlices :
       \E status \in {0, 1} : \E reached \in 0..MaxBatch :
          BatchUpdate(op, value1, value2, status, reached)

\* ---------------------------------------------------------------- claim C13
\* C13: a batched update with slices of different lengths returns
\* Err(Error::InvalidInput) without a native call and leaves the state where it
\* was; when the native call succeeds every returned vector has the length of the
\* input slices, empty inputs included; when it reports an error no output
\* vector is returned.
C13_BatchLengths ==
    bres.op # "" =>
        /\ Len(bres.value1) # Len(bres.value2) =>
              /\ ~bres.ok /\ bres.kind = "InvalidInput"
              /\ ~bres.native
              /\ point = bres.before
              /\ bres.outs = <<>>
        /\ Len(bres.value1) = Len(bres.value2) => bres.native
        /\ bres.ok =>
              /\ Len(bres.outs) = OutputsOf(bres.op)
              /\ \A j \in 1..Len(bres.outs) : Len(bres.outs[j]) = Len(bres.value1)
        /\ ~bres.ok => bres.outs = <<>>

\* update_and_5_out on empty slices succeeded, the state having been updated before.
C13_Witness ==
    /\ bres.op = "update_and_5_out"
    /\ bres.ok
    /\ bres.value1 = <<>>
    /\ Len(bres.outs) = 5
    /\ bres.before # NoPoint

\* -------------------------------- one handle: factory, update, get, free
SeqFrame == UNCHANGED <<lifeVars, errVars, globVars, queryVars, growVars, idxVars, cfgVars, strVars, batchVars, cloneVars, phaseVars, envVars, refVars, imposeVars, handleVars, fracVars, fpsVars, curveVars, tableVars>>

\* One AbstractState per thread of the program.
States == 1..NumThreads

\* get and the queries that forward a keyed output like it.
KeyedQueries == {"get", "saturated_liquid_keyed_output", "keyed_output_sat_state"}

\* phase: "none" before AbstractState::new, "constructed" while the value lives,
\* "freed" after its drop.  updated: an update has succeeded on the handle.
\* calls: native calls made with the handle.  early: a query was forwarded
\* before any update had succeeded.  afterFree: a native call followed the free.
Unborn == [phase |-> "none", updated |-> FALSE, calls |-> 0, early |-> FALSE,
           afterFree |-> FALSE]

SeqInit == sobj = [i \in States |-> Unborn]

\* What Rust lets the program call a method on: a value that exists.
UsableAlways(o) == o.phase # "none"
Usable(o) == o.phase = "constructed"

NativeCall(o) ==
    [o EXCEPT !.calls = o.calls + 1, !.afterFree = o.afterFree \/ o.phase = "freed"]

\* AbstractState::new: AbstractState_factory answers status.
SNew(i, status) ==
    /\ SeqFrame
    /\ sobj[i].phase = "none"
    /\ sobj' = IF status = 0
                 THEN [sobj EXCEPT ![i] = [Unborn EXCEPT !.phase = "constructed",
                                                         !.calls = 1]]
                 ELSE sobj

\* AbstractState::update: forwarded as it is.
SUpdate(i, status) ==
    /\ SeqFrame
    /\ Usable(sobj[i])
    /\ sobj[i].calls < MaxCalls
    /\ sobj' = [sobj EXCEPT ![i] =
                  [NativeCall(sobj[i]) EXCEPT !.updated = sobj[i].updated \/ status = 0]]

\* AbstractState::get and its siblings: forwarded as they are, whatever was
\* called on the state before.
SGet(i, query, status) ==
    /\ SeqFrame
    /\ Usable(sobj[i])
    /\ sobj[i].calls < MaxCalls
    /\ sobj' = [sobj EXCEPT ![i] =
                  [NativeCall(sobj[i]) EXCEPT !.early = sobj[i].early \/ ~sobj[i].updated]]

\* drop: AbstractState_free.
SDrop(i) ==
    /\ SeqFrame
    /\ Usable(sobj[i])
    /\ sobj' = [sobj EXCEPT ![i] = [NativeCall(sobj[i]) EXCEPT !.phase = "freed"]]

SeqNext ==
    \/ \E i \in States : \E status \in {0, 1} : SNew(i, status)
    \/ \E i \in States : \E status \in {0, 1} : SUpdate(i, status)
    \/ \E i \in States : \E query \in KeyedQueries : \E status \in {0, 1} :
          SGet(i, query, status)
    \/ \E i \in States : SDrop(i)

\* ---------------------------------------------------------------- claim C14
\* C14 as stated: a property query is forwarded to the native library only for
\* a state on which an update has already succeeded.
C14_QueryOnlyAfterUpdate == \A i \in States : ~sobj[i].early

\* C14, amended: every update and query on a handle happens after its factory
\* call and before its free, and free is the last native call made on the
\* handle; between the two the wrapper forwards every update and query as it
\* comes, a query also when no update has succeeded yet.
C14_BetweenFactoryAndFree ==
    \A i \in States :
        /\ sobj[i].phase = "none" => sobj[i].calls = 0
        /\ sobj[i].phase # "none" => sobj[i].calls >= 1
        /\ sobj[i].phase = "freed" => sobj[i].calls >= 2
        /\ ~sobj[i].afterFree
        /\ sobj[i].updated => sobj[i].calls >= 2

\* A handle was freed after a query that no successful update had preceded.
C14_Witness ==
    \E i \in States :
        /\ sobj[i].phase = "freed"
        /\ sobj[i].early
        /\ sobj[i].updated

\* ------------------------------------------------------------------ try_clone
CloneFrame == UNCHANGED <<lifeVars, errVars, globVars, queryVars, growVars, idxVars, cfgVars, strVars, batchVars, seqVars, phaseVars, envVars, refVars, imposeVars, handleVars, fracVars, fpsVars, curveVars, tableVars>>

\* Compositions a native state can hold; a state fresh from the factory holds
\* the unset one.
Unset == <<>>
Compositions == {Unset, <<4, 6>>, <<5, 5>>}

\* fluid_names() of the original: components joined by '&' or by ','.
FluidNames == {"R32&R125", "R32,R125"}
\* fluid.replace(',', "&")
NormalizedSame(fluid) == fluid
Normalized(fluid) == IF fluid = "R32,R125" THEN "R32&R125" ELSE fluid

OrigHandle == 1
\* factories: AbstractState_factory calls made; errFrom: the step whose error
\* try_clone returned; issued: handles the factory returned during the call;
\* owned: handles held by the value try_clone returned; names: what
\* fluid_names() returned; firstOk: the first AbstractState::new succeeded.
NoClone == [called |-> FALSE, ok |-> TRUE, kind |-> "", handle |-> 0,
            fluid |-> "", comp |-> Unset, origComp |-> Unset,
            fractionsOk |-> FALSE, factories |-> 0, copied |-> "skipped",
            errFrom |-> "", issued |-> {}, owned |-> {}, names |-> "",
            firstOk |-> FALSE]

CloneInit ==
    /\ origComp = Unset
    /\ cl = NoClone

\* set_fractions on the original.
OrigSetFractions(comp) ==
    /\ CloneFrame
    /\ comp # Unset
    /\ origComp' = comp
    /\ UNCHANGED cl

\* try_clone of the original.  metaOk: backend_name() and fluid_names()
\* succeed; fluid: what fluid_names() returns; first, second: whether the
\* factory accepts the names as they are / normalised; fractionsOk: the
\* original's mole_fractions() returns Ok; setOk: AbstractState_set_fractions
\* succeeds on the new handle.
TryCloneState(metaOk, fluid, first, second, fractionsOk, setOk) ==
    /\ CloneFrame
    /\ LET r == [NoClone EXCEPT !.called = TRUE, !.origComp = origComp,
                                !.fractionsOk = fractionsOk]
           fail == [r EXCEPT !.ok = FALSE, !.kind = "CoolProp", !.errFrom = "metadata"]
           made(names, n) ==
               [r EXCEPT !.kind = "Ok", !.handle = OrigHandle + 1, !.fluid = names,
                         !.factories = n,
                         !.issued = {OrigHandle + 1}, !.owned = {OrigHandle + 1},
                         !.comp = IF fractionsOk /\ setOk THEN origComp ELSE Unset,
                         !.copied = IF ~fractionsOk THEN "skipped"
                                    ELSE IF setOk THEN "ok" ELSE "ignored error"]
           met(q) == [q EXCEPT !.names = fluid, !.firstOk = first]
       IN  cl' = IF ~metaOk THEN fail
                 ELSE IF first THEN met(made(fluid, 1))
                 ELSE IF Normalized(fluid) = fluid
                   THEN met([fail EXCEPT !.factories = 1, !.errFrom = "first new"])
                 ELSE IF second THEN met(made(Normalized(fluid), 2))
                 ELSE met([fail EXCEPT !.factories = 2, !.errFrom = "second new"])
    /\ UNCHANGED origComp

CloneNext ==
    \/ \E comp \in Compositions : OrigSetFractions(comp)
    \/ \E metaOk \in BOOLEAN : \E fluid \in FluidNames : \E first \in BOOLEAN :
          \E second \in BOOLEAN : \E fractionsOk \in BOOLEAN : \E setOk \in BOOLEAN :
             TryCloneState(metaOk, fluid, first, second, fractionsOk, setOk)

\* ---------------------------------------------------------------- claim C15
\* C15: a try_clone that returns Ok yields a state with a fresh handle, and
\* whenever the original's mole_fractions returned Ok the clone's mole
\* fractions equal the original's.
C15_CloneCopiesFractions ==
    (cl.called /\ cl.ok) =>
        /\ cl.handle # OrigHandle
        /\ cl.fractionsOk => cl.comp = cl.origComp


PhaseFrame == UNCHANGED <<lifeVars, errVars, globVars, queryVars, growVars, idxVars, cfgVars, strVars, batchVars, seqVars, cloneVars, envVars, refVars, imposeVars, handleVars, fracVars, fpsVars, curveVars, tableVars>>

\* enum Phase, in the order of its declaration.
Phases == {"Liquid", "Supercritical", "SupercriticalGas", "SupercriticalLiquid",
           "CriticalPoint", "Gas", "TwoPhase", "Unknown", "NotImposed"}
None == "None"

\* Phase::from_code(code)
from_code(code) ==
    CASE code = 0 -> "Liquid"
      [] code = 1 -> "Supercritical"
      [] code = 2 -> "SupercriticalGas"
      [] code = 3 -> "SupercriticalLiquid"
      [] code = 4 -> "CriticalPoint"
      [] code = 5 -> "Gas"
      [] code = 6 -> "TwoPhase"
      [] code = 7 -> "Unknown"
      [] code = 8 -> "NotImposed"
      [] OTHER -> None

\* Phase::saturation_token(self)
saturation_token_any(phase) ==
    CASE phase = "Liquid" -> "liquid"
      [] phase = "Gas" -> "gas"
      [] phase = "TwoPhase" -> "twophase"
      [] OTHER -> "supercritical"
saturation_token(phase) ==
    CASE phase = "Liquid" -> "liquid"
      [] phase = "Gas" -> "gas"
      [] phase = "TwoPhase" -> "twophase"
      [] OTHER -> None

\* Codes AbstractState_phase can return (a C int) and statuses it can report.
PhaseCodes == (-1..MaxCode) \cup {-2147483647 - 1, 42, 2147483647}

NoPhase == [op |-> "", status |-> 0, code |-> 0, phase |-> None, ok |-> TRUE,
            kind |-> "", errCode |-> 0, native |-> FALSE, token |-> None]

PhaseInit ==
    /\ pres = NoPhase
    /\ lastToken = None

\* AbstractState::phase: call_with_error(..)?, then from_code(code).ok_or(..).
phase_ignoring_status(r, status, code) ==
    IF from_code(code) = None
        THEN [r EXCEPT !.ok = FALSE, !.kind = "UnknownPhaseCode", !.errCode = code]
        ELSE [r EXCEPT !.kind = "Ok", !.phase = from_code(code)]
phase_result(r, status, code) ==
    IF status # 0
        THEN [r EXCEPT !.ok = FALSE, !.kind = "CoolProp", !.errCode = status]
    ELSE IF from_code(code) = None
        THEN [r EXCEPT !.ok = FALSE, !.kind = "UnknownPhaseCode", !.errCode = code]
        ELSE [r EXCEPT !.kind = "Ok", !.phase = from_code(code)]

PhaseQuery(status, code) ==
    /\ PhaseFrame
    /\ pres' = phase_result([NoPhase EXCEPT !.op = "phase", !.status = status,
                                            !.code = code, !.native = TRUE],
                            status, code)
    /\ UNCHANGED lastToken

\* keyed_output_sat_state(phase, param) and mole_fractions_sat_state(phase): the
\* token is looked up first; without one nothing else happens.  status: what the
\* native calls that follow report.
SatStateQuery(op, phase, status) ==
    /\ PhaseFrame
    /\ LET token == saturation_token(phase)
           r == [NoPhase EXCEPT !.op = op, !.phase = phase, !.status = status]
       IN  IF token = None
             THEN /\ pres' = [r EXCEPT !.ok = FALSE, !.kind = "InvalidInput"]
                  /\ UNCHANGED lastToken
             ELSE /\ pres' = [r EXCEPT !.ok = status = 0, !.native = TRUE,
                                       !.token = token,
                                       !.kind = IF status = 0 THEN "Ok" ELSE "CoolProp",
                                       !.errCode = status]
                  /\ lastToken' = token

PhaseNext ==
    \/ \E status \in {-1, 0, 1} : \E code \in PhaseCodes : PhaseQuery(status, code)
    \/ \E op \in {"keyed_output_sat_state", "mole_fractions_sat_state"} :
          \E phase \in Phases : \E status \in {0, 1} : SatStateQuery(op, phase, status)

\* ---------------------------------------------------------- claims C16, C17
PhaseOrder == <<"Liquid", "Supercritical", "SupercriticalGas", "SupercriticalLiquid",
                "CriticalPoint", "Gas", "TwoPhase", "Unknown", "NotImposed">>

C17_PhaseCodes ==
    pres.op = "phase" =>
        /\ pres.status # 0 =>
              ~pres.ok /\ pres.kind = "CoolProp" /\ pres.errCode = pres.status
        /\ (pres.status = 0 /\ pres.code \in 0..8) =>
              pres.ok /\ pres.phase = PhaseOrder[pres.code + 1]
        /\ (pres.status = 0 /\ pres.code \notin 0..8) =>
              ~pres.ok /\ pres.kind = "UnknownPhaseCode" /\ pres.errCode = pres.code
        /\ \A c, d \in 0..8 : from_code(c) = from_code(d) => c = d

\* A failing native call whose return value happens to be a valid code.
C17_Witness ==
    /\ pres.op = "phase"
    /\ pres.status = 1
    /\ pres.code = 5
    /\ pres.kind = "CoolProp"

\* --------------------------------------- the vectors of phase_envelope
EnvFrame == UNCHANGED <<lifeVars, errVars, globVars, queryVars, growVars, idxVars, cfgVars, strVars, batchVars, seqVars, cloneVars, phaseVars, refVars, imposeVars, handleVars, fracVars, fpsVars, curveVars, tableVars>>

\* A buffer handed to the native call, as it is when the call returns: `len`
\* doubles, the one at index i (from 0) being seed + i.  Elements are produced
\* only where the code reads them.
Buffer(len, seed) == [len |-> len, seed |-> seed]
BufAt(buf, i) == buf.seed + i
NoBuffer == Buffer(0, 0)

Min(a, b) == IF a <= b THEN a ELSE b

\* Vec::truncate(n), and buf[..n].to_vec()
Truncate(buf, n) == [i \in 1..Min(n, buf.len) |-> BufAt(buf, i - 1)]
Slice(buf, n) == [i \in 1..n |-> BufAt(buf, i - 1)]

\* reshape_phase_compositions(flat, points, components); flat is a sequence,
\* flat[k + 1] being element k of the slice.
reshape_point_major(flat, points, components) ==
    IF points = 0 \/ components = 0 THEN << >>
    ELSE [comp \in 1..components |->
            [pt \in 1..points |-> flat[(comp - 1) * points + (pt - 1) + 1]]]
reshape_phase_compositions(flat, points, components) ==
    IF points = 0 \/ components = 0 THEN << >>
    ELSE [comp \in 1..components |->
            [pt \in 1..points |-> flat[(pt - 1) * components + (comp - 1) + 1]]]

EmptyEnvelope == [temperature |-> << >>, pressure |-> << >>, rhomolar_liq |-> << >>,
                  rhomolar_vap |-> << >>, x |-> << >>, y |-> << >>]

\* The answer to the size query: its status; for a failure, whether the text
\* mentions "length" or "buffer", and then whether fluid_names() succeeded and
\* the component count estimated from it; for a success, the sizes reported.
NoSizes == [status |-> 0, mentions |-> FALSE, len |-> 0, comps |-> 0,
            namesOk |-> TRUE, est |-> 0]
SizesAnswer(status, mentions, len, comps, namesOk, est) ==
    IF status = 0 THEN [NoSizes EXCEPT !.len = len, !.comps = comps]
    ELSE IF ~mentions THEN [NoSizes EXCEPT !.status = status]
    ELSE IF ~namesOk THEN [NoSizes EXCEPT !.status = status, !.mentions = TRUE,
                                          !.namesOk = FALSE]
    ELSE [NoSizes EXCEPT !.status = status, !.mentions = TRUE, !.est = est]

SizeAnswers ==
    {SizesAnswer(status, mentions, len, comps, namesOk, est) :
        status \in GrowStatuses, mentions \in BOOLEAN, len \in -1..MaxPoints,
        comps \in -1..MaxComponents, namesOk \in BOOLEAN, est \in {1, 2}}

\* pc: "idle", "loop" or "done"; points_guess, components_guess: the sizes of
\* the next buffers; reported_*: what the last native call stored in its size
\* outputs; x, y: the flat buffers of that call; sizes: the answer to the size
\* query; dataCalled: a native call was made with buffers; zeroCall: one was
\* made with a capacity of 0 points or 0 components.
NoEnv == [pc |-> "idle", points_guess |-> 0, components_guess |-> 0,
          ok |-> TRUE, kind |-> "", reported_length |-> 0, reported_components |-> 0,
          x |-> NoBuffer, y |-> NoBuffer, out |-> EmptyEnvelope,
          sizes |-> NoSizes, dataCalled |-> FALSE, zeroCall |-> FALSE]

EnvInit == env = NoEnv

\* if points_guess == 0 { points_guess = 256; } and the like
GuessAsIs(guess, default) == guess
GuessOr(guess, default) == IF guess = 0 THEN default ELSE guess

\* phase_envelope up to its loop (the size query with zero-length buffers).
EnvelopeSizes(answer) ==
    /\ EnvFrame
    /\ env.pc # "loop"
    /\ LET status == answer.status
           mentions == answer.mentions
           len == answer.len
           comps == answer.comps
           namesOk == answer.namesOk
           est == answer.est
           start == [NoEnv EXCEPT !.sizes = answer]
           fail == [start EXCEPT !.pc = "done", !.ok = FALSE, !.kind = "CoolProp"]
           actual_length == IF status = 0 THEN len ELSE EnvelopeDefaultPoints
           actual_components == IF status = 0 THEN comps ELSE Max(est, 1)
           points_guess == Max(actual_length, 0)
           components_guess == Max(actual_components, 0)
       IN  env' =
             IF status # 0 /\ ~(mentions /\ namesOk) THEN fail
             ELSE IF points_guess = 0 /\ components_guess = 0
               THEN [start EXCEPT !.pc = "done", !.kind = "Ok",
                                  !.reported_length = actual_length,
                                  !.reported_components = actual_components]
               ELSE [start EXCEPT !.pc = "loop",
                                  !.points_guess =
                                      GuessOr(points_guess, EnvelopeDefaultPoints),
                                  !.components_guess = GuessOr(components_guess, 1)]

\* Sizes the native call can report: -1 .. max, and twice what was offered.
SizeChoice(k, max, offered) == IF k > max THEN 2 * offered ELSE k

\* One pass of the loop.  k, c: the sizes the native call reports, as
\* SizeChoice reads them; seed tells the six buffers of this pass apart.
EnvelopePass(status, mentions, k, c, seed) ==
    /\ EnvFrame
    /\ env.pc = "loop"
    /\ env.points_guess <= MaxGuess
    /\ env.components_guess <= MaxGuess
    /\ LET reported_length == SizeChoice(k, MaxPoints, env.points_guess)
           reported_components == SizeChoice(c, MaxComponents, env.components_guess)
           temperature == Buffer(env.points_guess, seed + 100)
           pressure == Buffer(env.points_guess, seed + 200)
           rhomolar_vap == Buffer(env.points_guess, seed + 300)
           rhomolar_liq == Buffer(env.points_guess, seed + 400)
           x == Buffer(env.points_guess * env.components_guess, seed + 1000)
           y == Buffer(env.points_guess * env.components_guess, seed + 5000)
           actual_points == Max(reported_length, 0)
           actual_components == Max(reported_components, 0)
           none == actual_components = 0 \/ actual_points = 0
           x_flat == IF none THEN << >> ELSE Slice(x, actual_points * actual_components)
           y_flat == IF none THEN << >> ELSE Slice(y, actual_points * actual_components)
           called == [env EXCEPT !.dataCalled = TRUE,
                                 !.zeroCall = @ \/ env.points_guess = 0
                                                \/ env.components_guess = 0]
       IN  env' =
             IF status # 0
               THEN IF mentions
                      THEN [called EXCEPT !.points_guess = Max(@, 1) * 2,
                                          !.components_guess = Max(@, 1) * 2]
                      ELSE [called EXCEPT !.pc = "done", !.ok = FALSE,
                                          !.kind = "CoolProp"]
             ELSE IF actual_points > env.points_guess
                     \/ actual_components > env.components_guess
               THEN [called EXCEPT !.points_guess = Max(Max(@, actual_points), 1) * 2,
                                   !.components_guess =
                                       Max(Max(@, actual_components), 1)]
               ELSE [called EXCEPT
                       !.pc = "done", !.kind = "Ok",
                       !.reported_length = reported_length,
                       !.reported_components = reported_components,
                       !.x = x, !.y = y,
                       !.out = [temperature |-> Truncate(temperature, actual_points),
                                pressure |-> Truncate(pressure, actual_points),
                                rhomolar_liq |-> Truncate(rhomolar_liq, actual_points),
                                rhomolar_vap |-> Truncate(rhomolar_vap, actual_points),
                                x |-> IF none THEN << >>
                                      ELSE reshape_phase_compositions(
                                              x_flat, actual_points, actual_components),
                                y |-> IF none THEN << >>
                                      ELSE reshape_phase_compositions(
                                              y_flat, actual_points, actual_components)]]

EnvNext ==
    \/ \E answer \in SizeAnswers : EnvelopeSizes(answer)
    \/ \E status \in GrowStatuses : \E mentions \in BOOLEAN :
          \E k \in -1..(MaxPoints + 1) : \E c \in -1..(MaxComponents + 1) :
             \E seed \in {0, 1} :
                EnvelopePass(status, mentions, k, c, seed)

\* ---------------------------------------------------------------- claim C18
\* C18: an envelope returned for reported sizes P points and C components has
\* temperature, pressure, rhomolar_liq and rhomolar_vap of length P; when P = 0
\* or C = 0 its x and y are empty, and otherwise each has C rows of length P
\* with x[c][p] the element p*C + c of the flat buffer of the native call.
C18_EnvelopeShape ==
    (env.pc = "done" /\ env.ok) =>
        LET P == Max(env.reported_length, 0)
            C == Max(env.reported_components, 0)
            Shaped(m, flat) ==
                IF P = 0 \/ C = 0 THEN m = << >>
                ELSE /\ Len(m) = C
                     /\ \A c \in 0..(C - 1) :
                          /\ Len(m[c + 1]) = P
                          /\ \A p \in 0..(P - 1) :
                               m[c + 1][p + 1] = BufAt(flat, p * C + c)
        IN  /\ Len(env.out.temperature) = P
            /\ Len(env.out.pressure) = P
            /\ Len(env.out.rhomolar_liq) = P
            /\ Len(env.out.rhomolar_vap) = P
            /\ Shaped(env.out.x, env.x)
            /\ Shaped(env.out.y, env.y)

\* Three points of two components came back after the buffers had to grow.
C18_Witness ==
    /\ env.pc = "done" /\ env.ok
    /\ env.reported_length = 3
    /\ env.reported_components = 2
    /\ env.points_guess > 3
    /\ Len(env.out.x) = 2
    /\ Len(env.out.x[1]) = 3
    /\ env.out.x[2][1] # env.out.x[1][2]


RefFrame == UNCHANGED <<lifeVars, errVars, gpc, done, queryVars, growVars, idxVars, cfgVars, strVars, batchVars, seqVars, cloneVars, phaseVars, envVars, imposeVars, handleVars, fracVars, fpsVars, curveVars, tableVars>>

\* A &str is the sequence of its characters.
UpperCase == <<"A", "B", "C", "D", "E", "F", "G", "H", "I", "J", "K", "L", "M",
               "N", "O", "P", "Q", "R", "S", "T", "U", "V", "W", "X", "Y", "Z">>
LowerCase == <<"a", "b", "c", "d", "e", "f", "g", "h", "i", "j", "k", "l", "m",
               "n", "o", "p", "q", "r", "s", "t", "u", "v", "w", "x", "y", "z">>
NulChar == "NUL"
WhiteSpace == {" ", "\t", "\n", "\r"}

\* u8::to_ascii_lowercase and its inverse on letters
to_ascii_lowercase(ch) ==
    IF \E i \in 1..26 : UpperCase[i] = ch
        THEN LowerCase[CHOOSE i \in 1..26 : UpperCase[i] = ch]
        ELSE ch
to_ascii_uppercase(ch) ==
    IF \E i \in 1..26 : LowerCase[i] = ch
        THEN UpperCase[CHOOSE i \in 1..26 : LowerCase[i] = ch]
        ELSE ch

\* The characters of the arguments below, and to_ascii_lowercase on each.
Chars == {UpperCase[i] : i \in 1..26} \cup {LowerCase[i] : i \in 1..26}
         \cup WhiteSpace \cup {NulChar, "1"}
AsciiLower[ch \in Chars] == to_ascii_lowercase(ch)

\* str::eq_ignore_ascii_case
eq_exactly(a, b) == a = b
eq_ignore_ascii_case(a, b) ==
    /\ Len(a) = Len(b)
    /\ \A i \in 1..Len(a) : AsciiLower[a[i]] = AsciiLower[b[i]]

\* str::trim
RECURSIVE trim_start(_)
trim_start(s) ==
    IF s # << >> /\ Head(s) \in WhiteSpace THEN trim_start(Tail(s)) ELSE s
RECURSIVE trim_end(_)
trim_end(s) ==
    IF s # << >> /\ s[Len(s)] \in WhiteSpace
        THEN trim_end(SubSeq(s, 1, Len(s) - 1)) ELSE s
trim(s) == trim_end(trim_start(s))

Word_default == <<"d", "e", "f", "a", "u", "l", "t">>
Word_def == <<"d", "e", "f">>
Word_iir == <<"i", "i", "r">>
Word_ashrae == <<"a", "s", "h", "r", "a", "e">>
Word_nbp == <<"n", "b", "p">>
Token_DEF == <<"D", "E", "F">>
Token_IIR == <<"I", "I", "R">>
Token_ASHRAE == <<"A", "S", "H", "R", "A", "E">>
Token_NBP == <<"N", "B", "P">>

\* The match of set_reference_state on reference_state.trim()
normalize(reference_state) ==
    LET state == trim(reference_state)
    IN  IF eq_ignore_ascii_case(state, Word_default)
           \/ eq_ignore_ascii_case(state, Word_def) THEN Token_DEF
        ELSE IF eq_ignore_ascii_case(state, Word_iir) THEN Token_IIR
        ELSE IF eq_ignore_ascii_case(state, Word_ashrae) THEN Token_ASHRAE
        ELSE IF eq_ignore_ascii_case(state, Word_nbp) THEN Token_NBP
        ELSE state

\* CString::new(s) fails on an interior NUL byte.
ContainsNul(s) == \E i \in 1..Len(s) : s[i] = NulChar

\* Native calls made by coolprop_global_error: the attempts of
\* global_param_string("errstring"), and its last fetch when all of them fail.
ErrstringCalls(efails) ==
    Len(GlobalLoop[efails].caps) + IF GlobalLoop[efails].ok THEN 0 ELSE 1

NoRef == [fluidNul |-> FALSE, left |-> << >>, core |-> << >>, right |-> << >>,
          native |-> FALSE, sent |-> << >>, status |-> 1, ok |-> TRUE, kind |-> "",
          label |-> "", errCalls |-> 0, efails |-> 0, message |-> EmptyStr]

RefInit == refstate = NoRef

\* set_reference_state(fluid, reference_state), reference_state being
\* left \o core \o right.  fluidNul: fluid holds a NUL byte; status: what
\* set_reference_stateS returns; efails: how the errstring query fails.
SetReferenceState(fluidNul, left, core, right, status, efails) ==
    LET reference_state == normalize(left \o core \o right)
        r == [NoRef EXCEPT !.left = left, !.core = core, !.right = right]
        nul(q, label) == [q EXCEPT !.ok = FALSE, !.kind = "EmbeddedNul", !.label = label]
    IN  /\ RefFrame
        /\ IF fluidNul
             THEN /\ refstate' = nul([NoRef EXCEPT !.fluidNul = TRUE], "fluid")
                  /\ UNCHANGED errString
           ELSE IF ContainsNul(reference_state)
             THEN /\ refstate' = nul(r, "reference_state")
                  /\ UNCHANGED errString
           ELSE IF status = 1
             THEN /\ refstate' = [r EXCEPT !.native = TRUE, !.sent = reference_state,
                                           !.kind = "Ok"]
                  /\ UNCHANGED errString
             ELSE /\ refstate' =
                        [r EXCEPT !.native = TRUE, !.sent = reference_state,
                                  !.status = status, !.efails = efails,
                                  !.ok = FALSE, !.kind = "CoolPropGlobalError",
                                  !.errCalls = ErrstringCalls(efails),
                                  !.message = MessageOr(GlobalLoop[efails].ok,
                                                        NativeError(1))]
                  /\ errString' = EmptyStr

\* Every way of writing a word in upper and lower case letters.
RECURSIVE CaseVariants(_)
CaseVariants(word) ==
    IF word = << >> THEN {<< >>}
    ELSE {<<ch>> \o rest : ch \in {Head(word), to_ascii_uppercase(Head(word))},
                           rest \in CaseVariants(Tail(word))}
Variants_default == CaseVariants(Word_default)
Variants_def == CaseVariants(Word_def)
Variants_iir == CaseVariants(Word_iir)
Variants_ashrae == CaseVariants(Word_ashrae)
Variants_nbp == CaseVariants(Word_nbp)

\* Arguments a caller passes, without the white space around them.
RefCores ==
    Variants_def \cup Variants_iir \cup Variants_nbp
    \cup {Word_default, <<"D", "E", "F", "A", "U", "L", "T">>,
          <<"D", "e", "f", "a", "u", "l", "t">>, <<"d", "E", "f", "A", "u", "L", "t">>}
    \cup {Word_ashrae, Token_ASHRAE, <<"A", "s", "h", "r", "a", "e">>,
          <<"a", "S", "H", "r", "A", "e">>}
    \cup {<< >>, <<"d", "e", " ", "f">>, <<"d", "e">>, <<"d", "e", "f", "s">>,
          <<"N", "B", "P", "1">>, <<"C", "u", "s", "t", "o", "m">>,
          <<"i", NulChar, "r">>, <<"c", "u", "s", "t", "o", "m">>}
RefLeft == {<< >>, <<"\t", " ">>}
RefRight == {<< >>, <<" ", "\n">>}
RefStatuses == {0, 1, 2}
RefErrFails == {0, 1, MaxFails}

RefNext ==
    \E fluidNul \in BOOLEAN : \E left \in RefLeft : \E core \in RefCores :
       \E right \in RefRight : \E status \in RefStatuses : \E efails \in RefErrFails :
          SetReferenceState(fluidNul, left, core, right, status, efails)

\* ---------------------------------------------------------------- claim C19
\* What the claim says is sent for an argument whose trimmed text is core.
C19_Expected(core) ==
    IF core \in Variants_default \cup Variants_def THEN Token_DEF
    ELSE IF core \in Variants_iir THEN Token_IIR
    ELSE IF core \in Variants_ashrae THEN Token_ASHRAE
    ELSE IF core \in Variants_nbp THEN Token_NBP
    ELSE core

C19_Normalised ==
    refstate.native =>
        /\ refstate.sent = C19_Expected(refstate.core)
        /\ refstate.ok <=> refstate.status = 1
        /\ ~refstate.ok => refstate.kind = "CoolPropGlobalError"

\* C19 as stated: set_reference_state sends the trimmed argument with any case
\* variant of "default" or "def" replaced by "DEF", of "iir" by "IIR", of
\* "ashrae" by "ASHRAE", of "nbp" by "NBP"; it returns Ok exactly when the
\* native status is 1 and otherwise Err(Error::CoolPropGlobalError) after one
\* extra native call for the error string.
C19_OneExtraCall ==
    /\ C19_Normalised
    /\ (refstate.native /\ ~refstate.ok) => refstate.errCalls = 1

\* C19 (amended): as above, the error being built after at least one extra
\* native call for the error string: exactly one when the first errstring query
\* succeeds, one per failed attempt more otherwise, and when all attempts up
\* to the largest buffer fail, one last call after them and the message
\* "unknown error".
C19_ExtraCalls ==
    /\ C19_Normalised
    /\ (refstate.native /\ ~refstate.ok) =>
          /\ refstate.errCalls >= 1
          /\ refstate.efails = 0 <=> refstate.errCalls = 1
          /\ refstate.errCalls <= QueryAttempts("global_param_string") + 1
          /\ refstate.errCalls = QueryAttempts("global_param_string") + 1 <=> refstate.message = UnknownError

\* " \tdEfAuLt \n" was sent as "DEF", the native call failed and the error
\* string came at the second attempt.
C19_Witness ==
    /\ refstate.native /\ ~refstate.ok
    /\ refstate.left = <<"\t", " ">>
    /\ refstate.core = <<"d", "E", "f", "A", "u", "L", "t">>
    /\ refstate.right = <<" ", "\n">>
    /\ refstate.sent = Token_DEF
    /\ refstate.status = 0
    /\ refstate.errCalls = 2

\* ------------------------------------ specify_phase, unspecify_phase
ImposeFrame == UNCHANGED <<lifeVars, errVars, globVars, queryVars, growVars, idxVars, cfgVars, strVars, batchVars, seqVars, cloneVars, phaseVars, envVars, refVars, handleVars, fracVars, fpsVars, curveVars, tableVars>>

\* The name of each variant of enum Phase, as a sequence of characters.
VariantName(phase) ==
    CASE phase = "Liquid" ->
           <<"L", "i", "q", "u", "i", "d">>
      [] phase = "Supercritical" ->
           <<"S", "u", "p", "e", "r", "c", "r", "i", "t", "i", "c", "a", "l">>
      [] phase = "SupercriticalGas" ->
           <<"S", "u", "p", "e", "r", "c", "r", "i", "t", "i", "c", "a", "l", "G", "a", "s">>
      [] phase = "SupercriticalLiquid" ->
           <<"S", "u", "p", "e", "r", "c", "r", "i", "t", "i", "c", "a", "l", "L", "i", "q", "u", "i", "d">>
      [] phase = "CriticalPoint" ->
           <<"C", "r", "i", "t", "i", "c", "a", "l", "P", "o", "i", "n", "t">>
      [] phase = "Gas" ->
           <<"G", "a", "s">>
      [] phase = "TwoPhase" ->
           <<"T", "w", "o", "P", "h", "a", "s", "e">>
      [] phase = "Unknown" ->
           <<"U", "n", "k", "n", "o", "w", "n">>
      [] phase = "NotImposed" ->
           <<"N", "o", "t", "I", "m", "p", "o", "s", "e", "d">>

\* "phase_" followed by the name in lower case
specifier_token_lower(phase) ==
    <<"p", "h", "a", "s", "e", "_">> \o
        [i \in 1..Len(VariantName(phase)) |-> AsciiLower[VariantName(phase)[i]]]

\* Phase::specifier_token(self)
specifier_token(phase) ==
    CASE phase = "Liquid" ->
           <<"p", "h", "a", "s", "e", "_", "l", "i", "q", "u", "i", "d">>
      [] phase = "Supercritical" ->
           <<"p", "h", "a", "s", "e", "_", "s", "u", "p", "e", "r", "c", "r", "i", "t", "i", "c", "a", "l">>
      [] phase = "SupercriticalGas" ->
           <<"p", "h", "a", "s", "e", "_", "s", "u", "p", "e", "r", "c", "r", "i", "t", "i", "c", "a", "l", "_", "g", "a", "s">>
      [] phase = "SupercriticalLiquid" ->
           <<"p", "h", "a", "s", "e", "_", "s", "u", "p", "e", "r", "c", "r", "i", "t", "i", "c", "a", "l", "_", "l", "i", "q", "u", "i", "d">>
      [] phase = "CriticalPoint" ->
           <<"p", "h", "a", "s", "e", "_", "c", "r", "i", "t", "i", "c", "a", "l", "_", "p", "o", "i", "n", "t">>
      [] phase = "Gas" ->
           <<"p", "h", "a", "s", "e", "_", "g", "a", "s">>
      [] phase = "TwoPhase" ->
           <<"p", "h", "a", "s", "e", "_", "t", "w", "o", "p", "h", "a", "s", "e">>
      [] phase = "Unknown" ->
           <<"p", "h", "a", "s", "e", "_", "u", "n", "k", "n", "o", "w", "n">>
      [] phase = "NotImposed" ->
           <<"p", "h", "a", "s", "e", "_", "n", "o", "t", "_", "i", "m", "p", "o", "s", "e", "d">>

\* The code AbstractState_phase reports for a phase (the inverse of from_code).
CodeOf(phase) == CHOOSE code \in 0..8 : from_code(code) = phase
\* The phase a specifier token stands for in the native library.
PhaseOfToken(token) == CHOOSE phase \in Phases : specifier_token(phase) = token

\* Phases the native library can determine in an update.
Determined == Phases \ {"NotImposed"}
Released == "released"

NoImpose == [op |-> "", arg |-> None, token |-> << >>, status |-> 0, ok |-> TRUE,
             phase |-> None]

\* imposed: the phase the native state has been told to assume ("NotImposed"
\* when none); determined: the phase it found in its last successful update
\* (None before); specified: the argument of the last specify_phase that
\* returned Ok, Released after an unspecify_phase that returned Ok.
ImposeInit ==
    /\ imposed = "NotImposed"
    /\ determined = None
    /\ specified = Released
    /\ spres = NoImpose

\* update(pair, v1, v2) as far as the phase goes.
ImposeUpdate(status, found) ==
    /\ ImposeFrame
    /\ spres' = [NoImpose EXCEPT !.op = "update", !.status = status, !.ok = status = 0]
    /\ determined' = IF status = 0 THEN found ELSE determined
    /\ UNCHANGED <<imposed, specified>>

\* specify_phase(phase): the token goes to AbstractState_specify_phase.
SpecifyPhase(phase, status) ==
    /\ ImposeFrame
    /\ LET token == specifier_token(phase)
       IN  /\ spres' = [NoImpose EXCEPT !.op = "specify_phase", !.arg = phase,
                                        !.token = token, !.status = status,
                                        !.ok = status = 0]
           /\ imposed' = IF status = 0 THEN PhaseOfToken(token) ELSE imposed
           /\ specified' = IF status = 0 THEN phase ELSE specified
    /\ UNCHANGED determined

\* unspecify_phase()
UnspecifyPhase(status) ==
    /\ ImposeFrame
    /\ spres' = [NoImpose EXCEPT !.op = "unspecify_phase", !.status = status,
                                 !.ok = status = 0]
    /\ imposed' = IF status = 0 THEN "NotImposed" ELSE imposed
    /\ specified' = IF status = 0 THEN Released ELSE specified
    /\ UNCHANGED determined

\* phase() on an updated state: the native library reports the imposed phase
\* while one is imposed and the phase it determined otherwise.
ImposedPhaseQuery(status) ==
    /\ ImposeFrame
    /\ determined # None
    /\ LET code == CodeOf(IF imposed # "NotImposed" THEN imposed ELSE determined)
           r == phase_result([NoPhase EXCEPT !.op = "phase", !.status = status,
                                             !.code = code, !.native = TRUE],
                             status, code)
       IN  spres' = [NoImpose EXCEPT !.op = "phase", !.status = status,
                                     !.ok = r.ok, !.phase = r.phase]
    /\ UNCHANGED <<imposed, determined, specified>>

ImposeNext ==
    \/ \E status \in GrowStatuses : \E found \in Determined : ImposeUpdate(status, found)
    \/ \E phase \in Phases : \E status \in GrowStatuses : SpecifyPhase(phase, status)
    \/ \E status \in GrowStatuses : UnspecifyPhase(status)
    \/ \E status \in GrowStatuses : ImposedPhaseQuery(status)

\* ---------------------------------------------------------------- claim C21
\* phase() returned Ok on an updated state.
C21_PhaseReturned == spres.op = "phase" /\ spres.ok

\* The tokens of the nine phases.
C21_Tokens(phase) ==
    CASE phase = "Liquid" ->
           <<"p", "h", "a", "s", "e", "_", "l", "i", "q", "u", "i", "d">>
      [] phase = "Supercritical" ->
           <<"p", "h", "a", "s", "e", "_", "s", "u", "p", "e", "r", "c", "r", "i", "t", "i", "c", "a", "l">>
      [] phase = "SupercriticalGas" ->
           <<"p", "h", "a", "s", "e", "_", "s", "u", "p", "e", "r", "c", "r", "i", "t", "i", "c", "a", "l", "_", "g", "a", "s">>
      [] phase = "SupercriticalLiquid" ->
           <<"p", "h", "a", "s", "e", "_", "s", "u", "p", "e", "r", "c", "r", "i", "t", "i", "c", "a", "l", "_", "l", "i", "q", "u", "i", "d">>
      [] phase = "CriticalPoint" ->
           <<"p", "h", "a", "s", "e", "_", "c", "r", "i", "t", "i", "c", "a", "l", "_", "p", "o", "i", "n", "t">>
      [] phase = "Gas" ->
           <<"p", "h", "a", "s", "e", "_", "g", "a", "s">>
      [] phase = "TwoPhase" ->
           <<"p", "h", "a", "s", "e", "_", "t", "w", "o", "p", "h", "a", "s", "e">>
      [] phase = "Unknown" ->
           <<"p", "h", "a", "s", "e", "_", "u", "n", "k", "n", "o", "w", "n">>
      [] phase = "NotImposed" ->
           <<"p", "h", "a", "s", "e", "_", "n", "o", "t", "_", "i", "m", "p", "o", "s", "e", "d">>

HandleFrame == UNCHANGED <<lifeVars, errVars, globVars, queryVars, growVars, idxVars, cfgVars, strVars, batchVars, seqVars, cloneVars, phaseVars, envVars, refVars, imposeVars, fracVars, fpsVars, curveVars, tableVars>>

\* Methods of AbstractState (&self or &mut self) and the ways each returns.
\* "CoolProp": call_with_error found a non-zero status; "InvalidInput" and
\* "EmbeddedNul": the method returned before its native call.
Methods == {"update", "get", "specify_phase", "set_fractions", "fluid_param_string",
            "keyed_output_sat_state", "update_and_1_out", "build_phase_envelope"}
Outcomes(method) ==
    CASE method \in {"fluid_param_string", "build_phase_envelope"} ->
             {"Ok", "CoolProp", "EmbeddedNul"}
      [] method \in {"keyed_output_sat_state", "update_and_1_out"} ->
             {"Ok", "CoolProp", "InvalidInput"}
      [] OTHER -> {"Ok", "CoolProp"}
AllOutcomes == {"Ok", "CoolProp", "InvalidInput", "EmbeddedNul"}
Reaches(outcome) == outcome \in {"Ok", "CoolProp"}

\* made, alive: as in obj; handle: the field; born: the handle the factory
\* returned for this value; failed: the kinds of error its methods returned;
\* stale: a native call was made with the handle after its free.
NoState == [made |-> FALSE, alive |-> FALSE, handle |-> 0, born |-> 0,
            failed |-> {}, stale |-> FALSE]

HandleInit ==
    /\ hobj = [i \in States |-> NoState]
    /\ hfree = [h \in Handles |-> 0]
    /\ hissued = 0

\* What a method that returns leaves in the handle field.
HandleReleasedOnError(handle, outcome) == IF outcome = "Ok" THEN handle ELSE 0
HandleAfter(handle, outcome) == handle

\* AbstractState::new
HNew(i, status) ==
    /\ HandleFrame
    /\ ~hobj[i].made
    /\ hissued < MaxHandles
    /\ IF status = 0
         THEN /\ hobj' = [hobj EXCEPT ![i] = [NoState EXCEPT !.made = TRUE,
                                                !.alive = TRUE,
                                                !.handle = hissued + 1,
                                                !.born = hissued + 1]]
              /\ hissued' = hissued + 1
         ELSE UNCHANGED <<hobj, hissued>>
    /\ UNCHANGED hfree

\* Any method on a living value, with the way it returns.
HMethod(i, method, outcome) ==
    /\ HandleFrame
    /\ hobj[i].alive
    /\ outcome \in Outcomes(method)
    /\ hobj' = [hobj EXCEPT
                  ![i].handle = HandleAfter(hobj[i].handle, outcome),
                  ![i].failed = IF outcome = "Ok" THEN @ ELSE @ \cup {outcome},
                  ![i].stale = @ \/ (Reaches(outcome)
                                      /\ (hobj[i].handle \notin Handles
                                          \/ hfree[hobj[i].handle] > 0))]
    /\ UNCHANGED <<hfree, hissued>>

\* drop: one AbstractState_free(self.handle), whatever it answers.
HDrop(i) ==
    /\ HandleFrame
    /\ hobj[i].alive
    /\ hobj' = [hobj EXCEPT ![i].alive = FALSE]
    /\ hfree' = IF hobj[i].handle \in Handles
                  THEN [hfree EXCEPT ![hobj[i].handle] = @ + 1]
                  ELSE hfree
    /\ UNCHANGED hissued

HandleNext ==
    \/ \E i \in States : \E status \in {0, 1} : HNew(i, status)
    \/ \E i \in States : \E method \in Methods : \E outcome \in AllOutcomes :
          HMethod(i, method, outcome)
    \/ \E i \in States : HDrop(i)

\* ---------------------------------------------------------------- claim C22
\* C22: the handle of an AbstractState is the one its construction stored,
\* whatever its methods returned; while the value lives its handle has not been
\* freed, so that no method call reaches the native library with a freed
\* handle; and after its drop the handle has been freed exactly once.
C22_HandleFixed ==
    \A i \in States :
        hobj[i].made =>
            /\ hobj[i].handle = hobj[i].born
            /\ hobj[i].born \in 1..hissued
            /\ hobj[i].alive => hfree[hobj[i].born] = 0
            /\ ~hobj[i].alive => hfree[hobj[i].born] = 1
            /\ ~hobj[i].stale

\* A value was dropped after each kind of failure.
C22_Witness ==
    \E i \in States :
        /\ hobj[i].made /\ ~hobj[i].alive
        /\ hobj[i].failed = {"CoolProp", "InvalidInput", "EmbeddedNul"}
        /\ hfree[hobj[i].handle] = 1

\* ------------------------- mole_fractions and its siblings with their data
FracFrame == UNCHANGED <<lifeVars, errVars, globVars, queryVars, growVars, idxVars, cfgVars, strVars, batchVars, seqVars, cloneVars, phaseVars, envVars, refVars, imposeVars, handleVars, fpsVars, curveVars, tableVars>>

\* str::split(sep): the segments between the separators, empty ones included.
RECURSIVE SplitFrom(_, _, _)
SplitFrom(s, sep, current) ==
    IF s = << >> THEN <<current>>
    ELSE IF Head(s) = sep THEN <<current>> \o SplitFrom(Tail(s), sep, << >>)
    ELSE SplitFrom(Tail(s), sep, Append(current, Head(s)))
split(s, sep) == SplitFrom(s, sep, << >>)

\* The text whose segments are given, joined by '&'.
RECURSIVE JoinNames(_)
JoinNames(segments) ==
    IF Len(segments) = 0 THEN << >>
    ELSE IF Len(segments) = 1 THEN segments[1]
    ELSE segments[1] \o <<"&">> \o JoinNames(Tail(segments))

\* estimated_component_capacity, given what fluid_names() returned
estimated_component_capacity(names) ==
    LET segments == split(names, "&")
        count == Cardinality({i \in 1..Len(segments) : trim(segments[i]) # << >>})
    IN  Max(count, 1)

\* The capacity after a count that did not fit.
GrownDoubled(actual, capacity) == capacity * 2
Grown(actual, capacity) == Max(actual, capacity * 2)

NoCount == -2
\* first: the first capacity; prev: the capacity of the attempt before;
\* lastCount: the count that attempt reported when it succeeded without
\* fitting, NoCount otherwise; status, n: the status and count of the attempt
\* that returned; buf: its buffer; out: the vector returned.
NoFrac == [op |-> "", pc |-> "idle", segments |-> << >>, first |-> 0, capacity |-> 0,
           prev |-> 0, lastCount |-> NoCount, attempts |-> 0, status |-> 0, n |-> 0,
           ok |-> TRUE, kind |-> "", buf |-> NoBuffer, out |-> << >>]

FracInit == fr = NoFrac

\* Up to the loop.  pre = "unsupported": no cfg(coolprop_has_abstractstate_get_
\* mass_fractions), or a phase without saturation token; namesOk: fluid_names()
\* succeeded; segments: what it returned, cut at each '&'.
FractionsBegin(op, pre, namesOk, segments) ==
    /\ FracFrame
    /\ fr.pc # "loop"
    /\ pre = "unsupported" => op \in {"mass_fractions", "mole_fractions_sat_state"}
    /\ LET q == [NoFrac EXCEPT !.op = op]
           capacity == estimated_component_capacity(JoinNames(segments))
       IN  fr' = IF pre = "unsupported"
                   THEN [q EXCEPT !.pc = "done", !.ok = FALSE, !.kind = "InvalidInput"]
                 ELSE IF ~namesOk
                   THEN [q EXCEPT !.pc = "done", !.ok = FALSE, !.kind = "CoolProp"]
                   ELSE [q EXCEPT !.pc = "loop", !.segments = segments,
                                  !.first = capacity, !.capacity = capacity]

\* Counts the native call can report: -1 .. MaxComponents, one more than the
\* capacity, and three times the capacity.
CountReported(k, capacity) ==
    IF k <= MaxComponents THEN k
    ELSE IF k = MaxComponents + 1 THEN capacity + 1
    ELSE 3 * capacity

\* One pass of the loop.  mentions: the error text contains "buffer" or
\* "Length of array".
FractionsAttempt(status, mentions, k, seed) ==
    /\ FracFrame
    /\ fr.pc = "loop"
    /\ fr.capacity <= MaxGuess
    /\ LET fractions == Buffer(fr.capacity, seed + 1)
           count == CountReported(k, fr.capacity)
           actual == Max(count, 0)
           next == [fr EXCEPT !.attempts = @ + 1, !.prev = fr.capacity]
       IN  fr' =
             IF status = 0
               THEN IF actual > fr.capacity
                      THEN [next EXCEPT !.capacity = Grown(actual, fr.capacity),
                                        !.lastCount = count]
                      ELSE [next EXCEPT !.pc = "done", !.kind = "Ok", !.status = status,
                                        !.n = count, !.buf = fractions,
                                        !.out = Truncate(fractions, actual)]
             ELSE IF mentions
               THEN [next EXCEPT !.capacity = Max(fr.capacity, 1) * 2,
                                 !.lastCount = NoCount]
               ELSE [next EXCEPT !.pc = "done", !.ok = FALSE, !.kind = "CoolProp",
                                 !.status = status]

\* What fluid_names() returns for the states of the model, cut at each '&'.
NameSegments ==
    {<< << >> >>, << <<"A">> >>, << <<"A">>, <<"B">> >>, << <<"A", ",", "B">> >>,
     << <<"A">>, << >>, <<"B">> >>, << << >>, << >> >>, << <<"A">>, <<"B">>, << >> >>,
     << <<" ", "A", " ">>, <<"B">> >>, << <<"A">>, <<"B">>, <<"C">> >>}

FracNext ==
    \/ \E op \in FractionOps : \E pre \in {"ok", "unsupported"} :
          \E namesOk \in BOOLEAN : \E segments \in NameSegments :
             FractionsBegin(op, pre, namesOk, segments)
    \/ \E status \in GrowStatuses : \E mentions \in BOOLEAN :
          \E k \in -1..(MaxComponents + 2) : \E seed \in {0, 1} :
             FractionsAttempt(status, mentions, k, seed)

FpsFrame == UNCHANGED <<lifeVars, errVars, gpc, done, queryVars, growVars, idxVars, cfgVars, strVars, batchVars, seqVars, cloneVars, phaseVars, envVars, refVars, imposeVars, handleVars, fracVars, curveVars, tableVars>>

\* let mut capacity = (required_len as usize + 1).max(256);
FirstCapacityExact(required_len) == required_len + 1
FirstCapacity(required_len) == Max(required_len + 1, GlobalStart)

\* Lengths get_fluid_param_string_len can answer.
RequiredLens == {-2, -1, 0, 1, 254, 255, 256, 1000, 1048574, 1048575, 1048576,
                 2097151, 2097152, 3000000}

\* lenCalled: get_fluid_param_string_len was called; caps: the capacities of
\* the attempts made with get_fluid_param_string, in order.
NoFps == [label |-> "", lenCalled |-> FALSE, required_len |-> 0, caps |-> << >>,
          ok |-> TRUE, kind |-> "", message |-> EmptyStr]

FpsInit == fps = NoFps

\* fluid_param_string(fluid, param).  fluidNul, paramNul: the argument holds a
\* NUL byte; fails: how many attempts the native library rejects; efails: how
\* the errstring query of coolprop_global_error fails.
FluidParamString(fluidNul, paramNul, required_len, fails, efails) ==
    /\ FpsFrame
    /\ LET nul(label) == [NoFps EXCEPT !.label = label, !.ok = FALSE,
                                       !.kind = "EmbeddedNul"]
           q == [NoFps EXCEPT !.lenCalled = TRUE, !.required_len = required_len]
           r == RetryLoop(<<FirstCapacity(required_len)>>, GlobalCeiling, fails)
           failed(caps) == [q EXCEPT !.caps = caps, !.ok = FALSE,
                                     !.kind = "CoolPropGlobalError",
                                     !.message = MessageOr(GlobalLoop[efails].ok,
                                                           NativeError(1))]
       IN  IF fluidNul
             THEN fps' = nul("fluid") /\ UNCHANGED errString
           ELSE IF paramNul
             THEN fps' = nul("param") /\ UNCHANGED errString
           ELSE IF required_len < 0
             THEN fps' = failed(<< >>) /\ errString' = EmptyStr
           ELSE IF r.ok
             THEN fps' = [q EXCEPT !.caps = r.caps, !.kind = "Ok"]
                  /\ UNCHANGED errString
             ELSE fps' = failed(r.caps) /\ errString' = EmptyStr

FpsNext ==
    \E fluidNul \in BOOLEAN : \E paramNul \in BOOLEAN :
       \E required_len \in RequiredLens : \E fails \in 0..MaxFails :
          \E efails \in {0, MaxFails} :
             FluidParamString(fluidNul, paramNul, required_len, fails, efails)

\* ---------------------------------------------------------------- claim C26
\* C26: after a negative length the free function fluid_param_string returns
\* Error::CoolPropGlobalError without an attempt; otherwise its first buffer
\* has max(length + 1, 256) bytes, each further attempt has twice the bytes of
\* the one before, an error is returned exactly after a failed attempt with at
\* least 2^20 bytes, there are at most 13 attempts, and no attempt but the
\* first has 2^21 bytes or more.
C26_FluidParamAttempts ==
    fps.lenCalled =>
        LET n == Len(fps.caps) IN
        /\ fps.required_len < 0 =>
              ~fps.ok /\ fps.kind = "CoolPropGlobalError" /\ n = 0
        /\ fps.required_len >= 0 =>
              /\ n >= 1
              /\ fps.caps[1] = IF fps.required_len + 1 >= 256
                                 THEN fps.required_len + 1 ELSE 256
              /\ \A k \in 1..(n - 1) :
                    /\ fps.caps[k + 1] = 2 * fps.caps[k]
                    /\ fps.caps[k] < Pow2(20)
                    /\ fps.caps[k + 1] < Pow2(21)
              /\ n <= 13
              /\ ~fps.ok => fps.kind = "CoolPropGlobalError" /\ fps.caps[n] >= Pow2(20)

\* Thirteen attempts from 256 bytes up to 2^20 bytes, all of them rejected.
C26_Witness ==
    /\ fps.lenCalled /\ ~fps.ok
    /\ fps.required_len = 255
    /\ Len(fps.caps) = 13
    /\ fps.caps[13] = 1048576

\* ----------------------- spinodal_data and critical_points with their data
CurveFrame == UNCHANGED <<lifeVars, errVars, globVars, queryVars, growVars, idxVars, cfgVars, strVars, batchVars, seqVars, cloneVars, phaseVars, envVars, refVars, imposeVars, handleVars, fracVars, fpsVars, tableVars>>

\* A vec![f64::NAN; len] after the native call: the entries below `fill` were
\* written, the one at index `hole` with a value of its own kind, the others
\* with the finite, positive value seed + index.  Entries are produced only
\* where the code reads them.
Written(len, fill, hole, kind, seed) ==
    [len |-> len, fill |-> fill, hole |-> hole, kind |-> kind, seed |-> seed]
HoleValue(kind) ==
    CASE kind = "nan" -> NaN
      [] kind = "inf" -> PosInf
      [] kind = "-inf" -> NegInf
      [] kind = "zero" -> Finite(0)
      [] OTHER -> Finite(-1)
At(buf, idx) ==
    IF idx >= buf.fill THEN NaN
    ELSE IF idx = buf.hole THEN HoleValue(buf.kind)
    ELSE Finite(buf.seed + idx)
Unwritten == Written(0, 0, -1, "nan", 1)

\* A vec![-1 as c_long; len] after the native call: the entries below `fill`
\* hold 0, 1 or 2 in turn.
StabilityAt(buf, idx) == IF idx >= buf.fill THEN -1 ELSE (buf.seed + idx) % 3

\* f64 > 0.0
Positive(x) == x.class # "nan" /\ x.v > 0

\* vec.truncate(n): the first n entries.
Prefix(buf, n) == [i \in 1..Min(n, buf.len) |-> At(buf, i - 1)]

\* detect_filled_prefix(a, b, c): `last` is set at every index with a finite
\* entry, so the largest of them stays.
FilledAt(a, b, c, idx) ==
    is_finite(At(a, idx)) \/ is_finite(At(b, idx)) \/ is_finite(At(c, idx))
AllFilledAt(a, b, c, idx) ==
    is_finite(At(a, idx)) /\ is_finite(At(b, idx)) /\ is_finite(At(c, idx))
\* One past the largest index in S, a set of indices below len; 0 for none.
LastPlusOne(S, len) ==
    CHOOSE n \in 0..len : (n = 0 \/ (n - 1) \in S) /\ \A j \in n..(len - 1) : j \notin S
detect_filled_all(a, b, c) ==
    LET len == Min(Min(a.len, b.len), c.len)
    IN  LastPlusOne({idx \in 0..(len - 1) : AllFilledAt(a, b, c, idx)}, len)
detect_filled_prefix(a, b, c) ==
    LET len == Min(Min(a.len, b.len), c.len)
    IN  LastPlusOne({idx \in 0..(len - 1) : FilledAt(a, b, c, idx)}, len)

\* The test of critical_points on one index.
IsCriticalFinite(t, p, rho) == is_finite(t) /\ is_finite(p) /\ is_finite(rho)
IsCritical(t, p, rho) ==
    is_finite(t) /\ is_finite(p) /\ is_finite(rho) /\ Positive(t) /\ Positive(p)

\* a, b, c, d: the buffers of the attempt that returned (tau, delta, m1, or
\* temperature, pressure, rhomolar, stability); out: what was returned.
NoCurve == [op |-> "", pc |-> "idle", capacity |-> 0, calls |-> 0, ok |-> TRUE,
            kind |-> "", a |-> Unwritten, b |-> Unwritten, c |-> Unwritten,
            d |-> Unwritten, out |-> << >>]

CurveInit == cv = NoCurve

\* let mut capacity = 256usize; / 4usize;
CurveBegin(op) ==
    /\ CurveFrame
    /\ cv.pc # "loop"
    /\ cv' = [NoCurve EXCEPT !.op = op, !.pc = "loop",
                             !.capacity = StartCapacity(op, 0)]

\* One pass of the loop of spinodal_data.
SpinodalPass(status, tau, delta, m1) ==
    /\ CurveFrame
    /\ cv.pc = "loop" /\ cv.op = "spinodal_data"
    /\ LET called == [cv EXCEPT !.calls = @ + 1]
           actual_len == detect_filled_prefix(tau, delta, m1)
       IN  cv' = IF status # 0
                   THEN [called EXCEPT !.pc = "done", !.ok = FALSE, !.kind = "CoolProp"]
                 ELSE IF actual_len >= cv.capacity /\ cv.capacity < SpinodalCeiling
                   THEN [called EXCEPT !.capacity = @ * 2]
                   ELSE [called EXCEPT !.pc = "done", !.kind = "Ok",
                                       !.a = tau, !.b = delta, !.c = m1,
                                       !.out = [tau |-> Prefix(tau, actual_len),
                                                delta |-> Prefix(delta, actual_len),
                                                m1 |-> Prefix(m1, actual_len)]]

\* One pass of the loop of critical_points.
CriticalPass(status, temperature, pressure, rhomolar, stability) ==
    /\ CurveFrame
    /\ cv.pc = "loop" /\ cv.op = "critical_points"
    /\ LET called == [cv EXCEPT !.calls = @ + 1]
           count == LastPlusOne({idx \in 0..(cv.capacity - 1) :
                                   IsCritical(At(temperature, idx), At(pressure, idx),
                                              At(rhomolar, idx))}, cv.capacity)
       IN  cv' = IF status # 0
                   THEN [called EXCEPT !.pc = "done", !.ok = FALSE, !.kind = "CoolProp"]
                 ELSE IF count >= cv.capacity /\ cv.capacity < CriticalCeiling
                   THEN [called EXCEPT !.capacity = @ * 2]
                   ELSE [called EXCEPT
                           !.pc = "done", !.kind = "Ok",
                           !.a = temperature, !.b = pressure, !.c = rhomolar,
                           !.d = stability,
                           !.out = [i \in 1..count |->
                                      [temperature |-> At(temperature, i - 1),
                                       pressure |-> At(pressure, i - 1),
                                       rhomolar |-> At(rhomolar, i - 1),
                                       stable |-> StabilityAt(stability, i - 1) # 0]]]

\* What the native call can write into buffers of the current capacity.
FillChoice(k) == <<0, 1, 3, cv.capacity - 1, cv.capacity>>[k]
HoleChoice(h, fill) == <<-1, 0, fill - 1>>[h]
HoleKinds == {"nan", "inf", "zero", "neg"}
FirstWritten(k, h, kind) ==
    Written(cv.capacity, FillChoice(k), HoleChoice(h, FillChoice(k)), kind, 1)
OtherWritten(k, seed) == Written(cv.capacity, FillChoice(k), -1, "nan", seed)

CurveNext ==
    \/ \E op \in CappedOps : CurveBegin(op)
    \/ \E status \in GrowStatuses : \E k \in 1..5 : \E h \in 1..3 :
          \E kind \in HoleKinds : \E kd \in {1, 3} : \E km \in {1, 5} :
             SpinodalPass(status, FirstWritten(k, h, kind),
                          OtherWritten(kd, 1000), OtherWritten(km, 2000))
    \/ \E status \in GrowStatuses : \E k \in 1..5 : \E h \in 1..3 :
          \E kind \in HoleKinds : \E kp \in {3, 5} : \E seed \in {0, 1} :
             CriticalPass(status, FirstWritten(k, h, kind), OtherWritten(kp, 1000),
                          OtherWritten(5, 2000), OtherWritten(5, seed))

\* ----------------------------------------------------------- claims C27, C28
\* C27: the three vectors spinodal_data returns have one length L; no entry of
\* the native outputs at index L or above is finite and, when L > 0, one at
\* index L - 1 is; the entries below L are those the native call left, finite
\* or not; at most 6 native calls are made, with 256 to 8192 entries, and L is
\* at most 8192.
C27_SpinodalPrefix ==
    (cv.op = "spinodal_data" /\ cv.pc # "idle") =>
        /\ cv.calls <= 6
        /\ cv.capacity \in {256, 512, 1024, 2048, 4096, 8192}
        /\ (cv.pc = "done" /\ cv.ok) =>
              LET L == Len(cv.out.tau) IN
              /\ Len(cv.out.delta) = L /\ Len(cv.out.m1) = L
              /\ L <= 8192
              /\ \A idx \in L..(cv.capacity - 1) :
                    ~(is_finite(At(cv.a, idx)) \/ is_finite(At(cv.b, idx))
                        \/ is_finite(At(cv.c, idx)))
              /\ L > 0 => (is_finite(At(cv.a, L - 1)) \/ is_finite(At(cv.b, L - 1))
                             \/ is_finite(At(cv.c, L - 1)))
              /\ \A i \in 1..L :
                    /\ cv.out.tau[i] = At(cv.a, i - 1)
                    /\ cv.out.delta[i] = At(cv.b, i - 1)
                    /\ cv.out.m1[i] = At(cv.c, i - 1)

\* Three entries came back at the second attempt, the first of tau not finite.
C27_Witness ==
    /\ cv.op = "spinodal_data" /\ cv.pc = "done" /\ cv.ok
    /\ cv.calls = 2
    /\ Len(cv.out.tau) = 3
    /\ ~is_finite(cv.out.tau[1])
    /\ ~is_finite(cv.out.delta[3])

\* C28: critical_points returns n entries, the entries 0 .. n - 1 of the
\* native outputs in their order, where no index from n on has a finite
\* temperature, pressure and density with temperature > 0 and pressure > 0
\* and, when n > 0, index n - 1 has; stable is true exactly when the native
\* stability value is not 0; at most 5 native calls are made, with 4 to 64
\* entries, and n is at most 64.
C28_CriticalEntries ==
    (cv.op = "critical_points" /\ cv.pc # "idle") =>
        /\ cv.calls <= 5
        /\ cv.capacity \in {4, 8, 16, 32, 64}
        /\ (cv.pc = "done" /\ cv.ok) =>
              LET n == Len(cv.out)
                  Good(idx) ==
                      /\ At(cv.a, idx).class = "finite" /\ At(cv.a, idx).v > 0
                      /\ At(cv.b, idx).class = "finite" /\ At(cv.b, idx).v > 0
                      /\ At(cv.c, idx).class = "finite"
              IN  /\ n <= 64
                  /\ \A idx \in n..(cv.capacity - 1) : ~Good(idx)
                  /\ n > 0 => Good(n - 1)
                  /\ \A i \in 1..n :
                        /\ cv.out[i].temperature = At(cv.a, i - 1)
                        /\ cv.out[i].pressure = At(cv.b, i - 1)
                        /\ cv.out[i].rhomolar = At(cv.c, i - 1)
                        /\ cv.out[i].stable <=> StabilityAt(cv.d, i - 1) # 0

\* Seven entries came back at the second attempt, the first with a
\* temperature of 0, and entries of either stability among them.
C28_Witness ==
    /\ cv.op = "critical_points" /\ cv.pc = "done" /\ cv.ok
    /\ cv.calls = 2
    /\ Len(cv.out) = 7
    /\ cv.out[1].temperature = Finite(0)
    /\ cv.out[1].stable
    /\ ~cv.out[3].stable

\* ------------------------------------------- the contents of the index tables
TableFrame == UNCHANGED <<lifeVars, errVars, globVars, queryVars, growVars, idxVars, cfgVars, strVars, batchVars, seqVars, cloneVars, phaseVars, envVars, refVars, imposeVars, handleVars, fracVars, fpsVars, curveVars>>

\* coolprop_input_pairs! { ... }: the variants in declaration order, each with
\* its CoolProp token.
InputPairDecl ==
    <<
    <<"PT", "PT_INPUTS">>,
    <<"QT", "QT_INPUTS">>,
    <<"PQ", "PQ_INPUTS">>,
    <<"QSmolar", "QSmolar_INPUTS">>,
    <<"QSmass", "QSmass_INPUTS">>,
    <<"HmolarQ", "HmolarQ_INPUTS">>,
    <<"HmassQ", "HmassQ_INPUTS">>,
    <<"DmolarQ", "DmolarQ_INPUTS">>,
    <<"DmassQ", "DmassQ_INPUTS">>,
    <<"HmolarP", "HmolarP_INPUTS">>,
    <<"HmassP", "HmassP_INPUTS">>,
    <<"PSmolar", "PSmolar_INPUTS">>,
    <<"PSmass", "PSmass_INPUTS">>,
    <<"PUmolar", "PUmolar_INPUTS">>,
    <<"PUmass", "PUmass_INPUTS">>,
    <<"HmolarSmolar", "HmolarSmolar_INPUTS">>,
    <<"HmassSmass", "HmassSmass_INPUTS">>,
    <<"SmolarT", "SmolarT_INPUTS">>,
    <<"SmassT", "SmassT_INPUTS">>,
    <<"DmolarT", "DmolarT_INPUTS">>,
    <<"DmassT", "DmassT_INPUTS">>,
    <<"DmolarP", "DmolarP_INPUTS">>,
    <<"DmassP", "DmassP_INPUTS">>,
    <<"DmolarHmolar", "DmolarHmolar_INPUTS">>,
    <<"DmassHmass", "DmassHmass_INPUTS">>,
    <<"DmolarSmolar", "DmolarSmolar_INPUTS">>,
    <<"DmassSmass", "DmassSmass_INPUTS">>,
    <<"DmolarUmolar", "DmolarUmolar_INPUTS">>,
    <<"DmassUmass", "DmassUmass_INPUTS">>,
    <<"HmolarT", "HmolarT_INPUTS">>,
    <<"HmassT", "HmassT_INPUTS">>,
    <<"TUmolar", "TUmolar_INPUTS">>,
    <<"TUmass", "TUmass_INPUTS">>
    >>

\* coolprop_params! { ... }: the variants in declaration order, each with its
\* CoolProp token.  Several variants share a token.
ParamDecl ==
    <<
    <<"T", "T">>,
    <<"P", "P">>,
    <<"Dmolar", "Dmolar">>,
    <<"Hmolar", "Hmolar">>,
    <<"Smolar", "Smolar">>,
    <<"Umolar", "Umolar">>,
    <<"Gmolar", "Gmolar">>,
    <<"Helmholtzmolar", "Helmholtzmolar">>,
    <<"Dmass", "Dmass">>,
    <<"Hmass", "Hmass">>,
    <<"Smass", "Smass">>,
    <<"Umass", "Umass">>,
    <<"Gmass", "Gmass">>,
    <<"Helmholtzmass", "Helmholtzmass">>,
    <<"Q", "Q">>,
    <<"Delta", "Delta">>,
    <<"Tau", "Tau">>,
    <<"Cpmolar", "Cpmolar">>,
    <<"Cpmass", "Cpmass">>,
    <<"Cvmolar", "Cvmolar">>,
    <<"Cvmass", "Cvmass">>,
    <<"Cp0molar", "Cp0molar">>,
    <<"Cp0mass", "Cp0mass">>,
    <<"HmolarResidual", "Hmolar_residual">>,
    <<"SmolarResidual", "Smolar_residual">>,
    <<"GmolarResidual", "Gmolar_residual">>,
    <<"HmolarIdealgas", "Hmolar_idealgas">>,
    <<"SmolarIdealgas", "Smolar_idealgas">>,
    <<"UmolarIdealgas", "Umolar_idealgas">>,
    <<"HmassIdealgas", "Hmass_idealgas">>,
    <<"SmassIdealgas", "Smass_idealgas">>,
    <<"UmassIdealgas", "Umass_idealgas">>,
    <<"Gwp20", "GWP20">>,
    <<"Gwp100", "GWP100">>,
    <<"Gwp500", "GWP500">>,
    <<"Fh", "FH">>,
    <<"Hh", "HH">>,
    <<"Ph", "PH">>,
    <<"Odp", "ODP">>,
    <<"Bvirial", "Bvirial">>,
    <<"Cvirial", "Cvirial">>,
    <<"DBvirialDt", "dBvirial_dT">>,
    <<"DCvirialDt", "dCvirial_dT">>,
    <<"GasConstant", "gas_constant">>,
    <<"MolarMass", "molar_mass">>,
    <<"Acentric", "acentric">>,
    <<"DipoleMoment", "dipole_moment">>,
    <<"RhomassReducing", "rhomass_reducing">>,
    <<"RhomolarReducing", "rhomolar_reducing">>,
    <<"RhomolarCritical", "rhomolar_critical">>,
    <<"RhomassCritical", "rhomass_critical">>,
    <<"TReducing", "T_reducing">>,
    <<"TCritical", "T_critical">>,
    <<"TTriple", "T_triple">>,
    <<"TMax", "T_max">>,
    <<"TMin", "T_min">>,
    <<"PMin", "P_min">>,
    <<"PMax", "P_max">>,
    <<"PCritical", "p_critical">>,
    <<"PReducing", "p_reducing">>,
    <<"PTriple", "p_triple">>,
    <<"FractionMin", "fraction_min">>,
    <<"FractionMax", "fraction_max">>,
    <<"TFreeze", "T_freeze">>,
    <<"SpeedOfSound", "speed_of_sound">>,
    <<"Viscosity", "viscosity">>,
    <<"Conductivity", "conductivity">>,
    <<"SurfaceTension", "surface_tension">>,
    <<"Prandtl", "Prandtl">>,
    <<"IsothermalCompressibility", "isothermal_compressibility">>,
    <<"IsobaricExpansionCoefficient", "isobaric_expansion_coefficient">>,
    <<"IsentropicExpansionCoefficient", "isentropic_expansion_coefficient">>,
    <<"Z", "Z">>,
    <<"FundamentalDerivativeOfGasDynamics", "fundamental_derivative_of_gas_dynamics">>,
    <<"Pip", "PIP">>,
    <<"Alphar", "alphar">>,
    <<"DalpharDtauConstdelta", "dalphar_dtau_constdelta">>,
    <<"DalpharDdeltaConsttau", "dalphar_ddelta_consttau">>,
    <<"Alpha0", "alpha0">>,
    <<"Dalpha0DtauConstdelta", "dalpha0_dtau_constdelta">>,
    <<"Dalpha0DdeltaConsttau", "dalpha0_ddelta_consttau">>,
    <<"D2Alpha0Ddelta2Consttau", "d2alpha0_ddelta2_consttau">>,
    <<"D3Alpha0Ddelta3Consttau", "d3alpha0_ddelta3_consttau">>,
    <<"Phase", "Phase">>,
    <<"Umolar0", "Umolar_idealgas">>,
    <<"Hmolar0", "Hmolar_idealgas">>,
    <<"Smolar0", "Smolar_idealgas">>,
    <<"Umass0", "Umass_idealgas">>,
    <<"Hmass0", "Hmass_idealgas">>,
    <<"Smass0", "Smass_idealgas">>
    >>

\* pub enum ... { $( $variant, )+ }
Variants(decl) == {decl[i][1] : i \in 1..Len(decl)}
\* pub const ALL = &[ $( ...::$variant, )+ ]
ALL(decl) == [i \in 1..Len(decl) |-> decl[i][1]]
\* as_coolprop_str / as_coolprop_cstr
as_coolprop_str(decl, variant) ==
    decl[CHOOSE i \in 1..Len(decl) : decl[i][1] = variant][2]
\* `variant as usize` of a #[repr(usize)] enum without explicit discriminants:
\* the declaration position, from 0.
DeclaredFromOne(decl, variant) == CHOOSE i \in 1..Len(decl) : decl[i][1] = variant
as_usize(decl, variant) == (CHOOSE i \in 1..Len(decl) : decl[i][1] = variant) - 1

\* get_input_pair_index / get_param_index of the native library: an integer
\* that depends on the token alone, -1 for the tokens this library does not
\* know.  `lib` picks one of a few libraries.
Libraries == 0..2
TokenNumber(decl, token) == CHOOSE i \in 1..Len(decl) : decl[i][2] = token
NativeIndex(lib, decl, token) ==
    CASE lib = 0 -> TokenNumber(decl, token) + 10
      [] lib = 1 -> 200 - 2 * TokenNumber(decl, token)
      [] OTHER -> IF TokenNumber(decl, token) % 5 = 0 THEN -1
                  ELSE TokenNumber(decl, token) * 3

\* slice[index]: the element, or a panic when the index is out of range.
Panic == [panic |-> TRUE, id |-> 0]
Indexed(ids, index) ==
    IF index < Len(ids) THEN [panic |-> FALSE, id |-> ids[index + 1]] ELSE Panic

NoLookup == [of |-> "", variant |-> "", got |-> [panic |-> FALSE, id |-> 0]]
NoIndices == [pc |-> "unloaded", lib |-> 0, input_pair_ids |-> << >>,
              param_ids |-> << >>, lookup |-> NoLookup]

TableInit == tbl = NoIndices

\* Indices::load starts: Vec::with_capacity(InputPair::ALL.len()).
LoadBegin(lib) ==
    /\ TableFrame
    /\ tbl.pc = "unloaded"
    /\ tbl' = [tbl EXCEPT !.pc = "pairs", !.lib = lib]

\* for &pair in InputPair::ALL { ids.push(query(get_input_pair_index, ...)) }
PushPair ==
    /\ TableFrame
    /\ tbl.pc = "pairs"
    /\ LET all == ALL(InputPairDecl)
           n == Len(tbl.input_pair_ids)
       IN  tbl' = IF n < Len(all)
                    THEN [tbl EXCEPT !.input_pair_ids =
                            Append(@, NativeIndex(tbl.lib, InputPairDecl,
                                        as_coolprop_str(InputPairDecl, all[n + 1])))]
                    ELSE [tbl EXCEPT !.pc = "params"]

\* for &param in Param::ALL { params.push(query(get_param_index, ...)) }
PushParam ==
    /\ TableFrame
    /\ tbl.pc = "params"
    /\ LET all == ALL(ParamDecl)
           n == Len(tbl.param_ids)
       IN  tbl' = IF n < Len(all)
                    THEN [tbl EXCEPT !.param_ids =
                            Append(@, NativeIndex(tbl.lib, ParamDecl,
                                        as_coolprop_str(ParamDecl, all[n + 1])))]
                    ELSE [tbl EXCEPT !.pc = "loaded"]

\* Indices::id_of_pair(ip): self.input_pair_ids[ip as usize]
id_of_pair(ip) ==
    /\ TableFrame
    /\ tbl.pc = "loaded"
    /\ tbl' = [tbl EXCEPT !.lookup =
                 [of |-> "pair", variant |-> ip,
                  got |-> Indexed(tbl.input_pair_ids, as_usize(InputPairDecl, ip))]]

\* Indices::id_of_param(p): self.param_ids[p as usize]
id_of_param(p) ==
    /\ TableFrame
    /\ tbl.pc = "loaded"
    /\ tbl' = [tbl EXCEPT !.lookup =
                 [of |-> "param", variant |-> p,
                  got |-> Indexed(tbl.param_ids, as_usize(ParamDecl, p))]]

TableNext ==
    \/ \E lib \in Libraries : LoadBegin(lib)
    \/ PushPair
    \/ PushParam
    \/ \E ip \in Variants(InputPairDecl) : id_of_pair(ip)
    \/ \E p \in Variants(ParamDecl) : id_of_param(p)

\* ------------------------------------------------------------------ claim C29
\* C29: the loaded tables have one entry for each InputPair variant and one
\* for each Param variant; the entry at a variant's declaration position is
\* the index the native library gave for the token of that variant; and no
\* lookup panics, each returning that index.
DeclaredOnce(decl) ==
    \A i, j \in 1..Len(decl) : decl[i][1] = decl[j][1] => i = j
C29_TableEntries ==
    /\ DeclaredOnce(InputPairDecl) /\ DeclaredOnce(ParamDecl)
    /\ tbl.pc = "loaded" =>
          /\ Len(tbl.input_pair_ids) = Cardinality(Variants(InputPairDecl))
          /\ Len(tbl.param_ids) = Cardinality(Variants(ParamDecl))
          /\ \A i \in 1..Len(InputPairDecl) :
                tbl.input_pair_ids[i] = NativeIndex(tbl.lib, InputPairDecl, InputPairDecl[i][2])
          /\ \A i \in 1..Len(ParamDecl) :
                tbl.param_ids[i] = NativeIndex(tbl.lib, ParamDecl, ParamDecl[i][2])
    /\ ~tbl.lookup.got.panic
    /\ tbl.lookup.of = "pair" =>
          tbl.lookup.got.id =
              NativeIndex(tbl.lib, InputPairDecl,
                          as_coolprop_str(InputPairDecl, tbl.lookup.variant))
    /\ tbl.lookup.of = "param" =>
          tbl.lookup.got.id =
              NativeIndex(tbl.lib, ParamDecl,
                          as_coolprop_str(ParamDecl, tbl.lookup.variant))

\* The last declared parameter was looked up in the table of the third
\* library, which gave it the index of the token it shares with an earlier
\* variant.
C29_Witness ==
    /\ tbl.pc = "loaded" /\ tbl.lib = 2
    /\ tbl.lookup.of = "param" /\ tbl.lookup.variant = "Smass0"
    /\ tbl.lookup.got = [panic |-> FALSE, id |-> tbl.param_ids[Len(tbl.param_ids)]]
    /\ tbl.lookup.got.id = tbl.param_ids[as_usize(ParamDecl, "SmassIdealgas") + 1]

Init == LifeInit /\ ErrInit /\ GlobInit /\ QueryInit /\ GrowInit /\ IdxInit /\ CfgInit /\ StrInit /\ BatchInit /\ SeqInit /\ CloneInit /\ PhaseInit /\ EnvInit /\ RefInit /\ ImposeInit /\ HandleInit /\ FracInit /\ FpsInit /\ CurveInit /\ TableInit
Next == LifeNext
Spec == Init /\ [][Next]_vars

\* Threads calling props_si, props1_si and ha_props_si side by side.
SpecGlobal == Init /\ [][GlobNext]_vars

\* AbstractState::new on several threads, down to the steps of global_indices.
SpecIdx == Init /\ [][IdxNext]_vars

\* The growable-buffer queries of an AbstractState, over every native behaviour.
SpecGrow == Init /\ [][GrowNext]_vars

\* The status-returning string queries, over every native behaviour.
SpecQuery == Init /\ [][QueryNext]_vars

\* props_si, props1_si and ha_props_si called one after the other.
SpecProps == Init /\ [][PropsNext]_vars

\* call_with_error and the string conversion, over every answer of the native call.
SpecErr == Init /\ [][ErrNext]_vars

\* set_config_* and get_config_* called one after the other, step by step.
SpecConfig == Init /\ [][CfgNext]_vars

\* Every string-taking operation, with NUL bytes in any of its arguments.
SpecStr == Init /\ [][StrNext]_vars

\* The batched updates, over slices of every length and both native answers.
SpecBatch == Init /\ [][BatchNext]_vars

\* The order of native calls on each handle.
SpecSeq == Init /\ [][SeqNext]_vars

\* try_clone of one state, over every answer of the native calls it makes.
SpecClone == Init /\ [][CloneNext]_vars

\* phase() over every code, and the saturation queries over every Phase.
SpecPhase == Init /\ [][PhaseNext]_vars

\* phase_envelope with the contents of its buffers.
SpecEnvelope == Init /\ [][EnvNext]_vars

\* set_reference_state over its arguments and the native answers.
SpecRef == Init /\ [][RefNext]_vars

\* update, specify_phase, unspecify_phase and phase() on one state.
SpecImpose == Init /\ [][ImposeNext]_vars

\* Methods of AbstractState failing and succeeding between new and drop.
SpecHandle == Init /\ [][HandleNext]_vars

\* mole_fractions, mass_fractions and mole_fractions_sat_state with their data.
SpecFractions == Init /\ [][FracNext]_vars

\* fluid_param_string(fluid, param) over the lengths and answers of the library.
SpecFluidParam == Init /\ [][FpsNext]_vars

\* spinodal_data and critical_points with the contents of their buffers.
SpecCurves == Init /\ [][CurveNext]_vars

\* Indices::load entry by entry, and the lookups in the loaded tables.
SpecTable == Init /\ [][TableNext]_vars

=============================================================================
